---- MODULE Spec2Model ----
(***************************************************************************)
(* The canvas interaction engine of wikicollage: the hyperapp actions of   *)
(* viewport.js, block.js, resize.js, selection.js, pages.js and memento.js *)
(* as operators State -> State, and one TLA+ action per DOM event or       *)
(* dispatched action.                                                      *)
(*                                                                         *)
(* Numbers are JS numbers read as exact reals; the pointer positions       *)
(* explored are those whose results stay integral (see ResizeIsExact).     *)
(* null is Null for                                                        *)
(* record-valued fields and NoId for id-valued fields (block ids are >= 1).*)
(***************************************************************************)
EXTENDS Integers, Sequences, FiniteSets, TLC

VARIABLES
  state,      \* the hyperapp State: pages, currentPageId, mementoManager, ...
  uuid,       \* how many ids crypto.randomUUID() has handed out to pages
  pointer,    \* the physical pointer: what the gesture in progress started as
  lastEvent,  \* the handler that produced this state
  changes,    \* how many events have changed the state so far
  commit,     \* what the last event did to the history
  ipc         \* the Electron processes: messages in flight, file writes in
              \* progress, the contents of user/state.json

vars == <<state, uuid, pointer, lastEvent, changes, commit, ipc>>

\* JavaScript's null
Null == [null |-> TRUE]

\* the processes at rest: the renderer has not called initialize(), nothing is
\* in flight, user/state.json does not exist
NoIpc ==
  [renderer |-> "loading", captured |-> Null, toRenderer |-> <<>>,
   toMain |-> <<>>, writes |-> <<>>, file |-> Null, exited |-> FALSE,
   quitState |-> Null, quitData |-> Null]

----------------------------------------------------------------------------
(* Bounds of the model *)

MaxBlocks == 2
MaxPages == 2
MaxChanges == 5
MaxMoves == 2
MaxUndo == 2
MaxCommits == 52
MaxResizeEvents == 3
MaxWheelEvents == 5
MaxPressEvents == 5
MaxOrderEvents == 3

(* Program constants *)

MIN_SIZE == 20
maxHistorySize == 50
DefaultBlockSize == 200
programsPanelWidth == 300

(* The window the application runs in (window.innerWidth / innerHeight) *)
innerWidth == 900
innerHeight == 600

(* Inputs: pointer positions (clientX, clientY), buttons, handles, names *)
PointerXs == {100, 300, 600}
PointerYs == {300}
Buttons == {0, 1}
Handles == {"nw", "ne", "sw", "se", "n", "s", "w", "e"}
GestureHandles == {"se", "nw"}
PageNames == {"notes"}

NoId == 0
SelectionBoundingBoxId == -1

----------------------------------------------------------------------------
(* Array helpers *)

Min(a, b) == IF a <= b THEN a ELSE b
Max(a, b) == IF a >= b THEN a ELSE b
Abs(a) == IF a >= 0 THEN a ELSE -a

Includes(seq, x) == \E i \in 1..Len(seq) : seq[i] = x

Map(seq, F(_)) == [i \in 1..Len(seq) |-> F(seq[i])]

\* Array.prototype.filter
Filter(seq, P(_)) == SelectSeq(seq, P)

\* Array.prototype.find on blocks by id: the first match, Null when absent
FindById(seq, id) ==
  IF \E i \in 1..Len(seq) : seq[i].id = id
  THEN seq[CHOOSE i \in 1..Len(seq) :
             seq[i].id = id /\ \A j \in 1..(i-1) : seq[j].id # id]
  ELSE Null

HasId(seq, id) == \E i \in 1..Len(seq) : seq[i].id = id

\* [...new Set(seq)]: first occurrences, in order
RECURSIVE Dedup(_)
Dedup(seq) ==
  IF seq = <<>> THEN <<>>
  ELSE LET init == Dedup(SubSeq(seq, 1, Len(seq) - 1))
           last == seq[Len(seq)]
       IN IF Includes(init, last) THEN init ELSE Append(init, last)

SeqMax(seq, F(_), start) ==
  LET vals == {F(seq[i]) : i \in 1..Len(seq)} \cup {start}
  IN CHOOSE m \in vals : \A v \in vals : v <= m

SeqMin(seq, F(_), start) ==
  LET vals == {F(seq[i]) : i \in 1..Len(seq)} \cup {start}
  IN CHOOSE m \in vals : \A v \in vals : m <= v

\* array.slice(-n)
SliceLast(seq, n) ==
  IF Len(seq) <= n THEN seq ELSE SubSeq(seq, Len(seq) - n + 1, Len(seq))

----------------------------------------------------------------------------
(* pages.js *)

\* page.zoom is kept in hundredths, the step of the zoom wheel: zoom 1 is
\* ZoomScale, and a / zoom is DivZoom(a, zoom)
ZoomScale == 100
DivZoom(a, zoom) == (a * ZoomScale) \div zoom

HasCurrentPage(s) == \E i \in 1..Len(s.pages) : s.pages[i].id = s.currentPageId

getCurrentPage(s) ==
  s.pages[CHOOSE i \in 1..Len(s.pages) :
            s.pages[i].id = s.currentPageId
            /\ \A j \in 1..(i-1) : s.pages[j].id # s.currentPageId]

getCurrentBlocks(s) == IF HasCurrentPage(s) THEN getCurrentPage(s).blocks ELSE <<>>

RECURSIVE FlatBlocks(_)
FlatBlocks(pages) ==
  IF pages = <<>> THEN <<>> ELSE Head(pages).blocks \o FlatBlocks(Tail(pages))

getGlobalBlocks(s) == FlatBlocks(s.pages)

getCurrentViewport(s) ==
  IF HasCurrentPage(s)
  THEN [offsetX |-> getCurrentPage(s).offsetX,
        offsetY |-> getCurrentPage(s).offsetY,
        zoom |-> getCurrentPage(s).zoom]
  ELSE [offsetX |-> 0, offsetY |-> 0, zoom |-> ZoomScale]

defaultPage(id) ==
  [id |-> id, name |-> "New Page", blocks |-> <<>>,
   offsetX |-> 0, offsetY |-> 0, zoom |-> ZoomScale, mouseX |-> 0, mouseY |-> 0,
   cursorStyle |-> "pointer", isViewportDragging |-> FALSE,
   isTextEditorFocused |-> FALSE, isInteractMode |-> FALSE,
   selectedIds |-> <<>>, editingId |-> NoId,
   resizing |-> Null, dragStart |-> Null,
   previewSelectedIds |-> <<>>, selectionBox |-> Null]

\* { ...page, ...pageData } on the current page
updateCurrentPage(s, pageData) ==
  [s EXCEPT !.pages =
     [i \in 1..Len(s.pages) |->
        IF s.pages[i].id = s.currentPageId
        THEN pageData @@ s.pages[i]
        ELSE s.pages[i]]]

----------------------------------------------------------------------------
(* memento.js *)

createMementoManager ==
  [undoStack |-> <<>>, redoStack |-> <<>>, maxHistorySize |-> maxHistorySize]

\* JSON.parse(JSON.stringify(pages)) copies the pages: every value of a page
\* is a finite number, a string, a boolean, null or an array/object of these.
createMemento(s) ==
  [pages |-> [i \in 1..Len(s.pages) |->
                [selectedIds |-> <<>>, dragStart |-> Null, resizing |-> Null]
                  @@ s.pages[i]],
   currentPageId |-> s.currentPageId]


\* saveMementoAndReturn without the slice(-maxHistorySize)
saveMementoAndReturnUnbounded(prevState, newState) ==
  [newState EXCEPT !.mementoManager =
     [prevState.mementoManager EXCEPT
        !.undoStack = Append(prevState.mementoManager.undoStack,
                             createMemento(prevState)),
        !.redoStack = <<>>]]

saveMementoAndReturn(prevState, newState) ==
  [newState EXCEPT !.mementoManager =
     [prevState.mementoManager EXCEPT
        !.undoStack = SliceLast(Append(prevState.mementoManager.undoStack,
                                       createMemento(prevState)),
                                prevState.mementoManager.maxHistorySize),
        !.redoStack = <<>>]]


\* undoState without the early return on an empty undoStack
undoStateUnguarded(s) ==
  LET undoStack == s.mementoManager.undoStack
      currentMemento == createMemento(s)
      memento == IF Len(undoStack) = 0 THEN currentMemento
                 ELSE undoStack[Len(undoStack)]
  IN [s EXCEPT
        !.pages = memento.pages,
        !.currentPageId = memento.currentPageId,
        !.mementoManager =
          [@ EXCEPT
             !.undoStack = SubSeq(@, 1, Len(@) - 1),
             !.redoStack = Append(@, currentMemento)]]

undoState(s) ==
  IF Len(s.mementoManager.undoStack) = 0 THEN s
  ELSE LET memento == s.mementoManager.undoStack[Len(s.mementoManager.undoStack)]
           currentMemento == createMemento(s)
       IN [s EXCEPT
             !.pages = memento.pages,
             !.currentPageId = memento.currentPageId,
             !.mementoManager =
               [@ EXCEPT
                  !.undoStack = SubSeq(@, 1, Len(@) - 1),
                  !.redoStack = Append(@, currentMemento)]]


\* redoState that does not push the current state onto undoStack
redoStateKeepingUndoStack(s) ==
  IF Len(s.mementoManager.redoStack) = 0 THEN s
  ELSE LET memento == s.mementoManager.redoStack[Len(s.mementoManager.redoStack)]
       IN [s EXCEPT
             !.pages = memento.pages,
             !.currentPageId = memento.currentPageId,
             !.mementoManager =
               [@ EXCEPT !.redoStack = SubSeq(@, 1, Len(@) - 1)]]

redoState(s) ==
  IF Len(s.mementoManager.redoStack) = 0 THEN s
  ELSE LET memento == s.mementoManager.redoStack[Len(s.mementoManager.redoStack)]
           currentMemento == createMemento(s)
       IN [s EXCEPT
             !.pages = memento.pages,
             !.currentPageId = memento.currentPageId,
             !.mementoManager =
               [@ EXCEPT
                  !.undoStack = Append(@, currentMemento),
                  !.redoStack = SubSeq(@, 1, Len(@) - 1)]]

----------------------------------------------------------------------------
(* pages.js: page commands *)

createPage(s, id, name) ==
  LET newPage == [defaultPage(id) EXCEPT !.name = name]
      newState == [s EXCEPT !.pages = Append(@, newPage),
                            !.currentPageId = id]
  IN saveMementoAndReturn(s, newState)

switchPage(s, pageId) ==
  IF ~ HasId(s.pages, pageId) THEN s
  ELSE [s EXCEPT !.currentPageId = pageId]

\* deletePage that leaves currentPageId as it is
deletePageKeepingCurrent(s, pageId) ==
  IF Len(s.pages) <= 1 THEN s
  ELSE LET keep(p) == p.id # pageId
           updatedPages == Filter(s.pages, keep)
           newState == [s EXCEPT !.pages = updatedPages]
       IN saveMementoAndReturn(s, newState)

deletePage(s, pageId) ==
  IF Len(s.pages) <= 1 THEN s
  ELSE LET keep(p) == p.id # pageId
           updatedPages == Filter(s.pages, keep)
           newCurrentPageId == IF s.currentPageId = pageId
                               THEN updatedPages[1].id
                               ELSE s.currentPageId
           newState == [s EXCEPT !.pages = updatedPages,
                                 !.currentPageId = newCurrentPageId]
       IN saveMementoAndReturn(s, newState)

renamePage(s, pageId, newName) ==
  LET newState ==
        [s EXCEPT !.pages =
           [i \in 1..Len(s.pages) |->
              IF s.pages[i].id = pageId
              THEN [s.pages[i] EXCEPT !.name = newName]
              ELSE s.pages[i]]]
  IN saveMementoAndReturn(s, newState)

----------------------------------------------------------------------------
(* selection.js *)

isBlockSelected(s, blockId) ==
  HasCurrentPage(s) /\ Includes(getCurrentPage(s).selectedIds, blockId)

getSelectedBlocks(s) ==
  IF ~ HasCurrentPage(s) \/ Len(getCurrentPage(s).selectedIds) = 0 THEN <<>>
  ELSE LET isSel(b) == Includes(getCurrentPage(s).selectedIds, b.id)
       IN Filter(getCurrentBlocks(s), isSel)

getSelectedBlockIds(s) ==
  IF HasCurrentPage(s) THEN getCurrentPage(s).selectedIds ELSE <<>>

hasSelection(s) == HasCurrentPage(s) /\ Len(getCurrentPage(s).selectedIds) > 0

selectBlock(s, blockId) ==
  updateCurrentPage(s, [selectedIds |-> <<blockId>>, editingId |-> NoId])

deselectAllBlocks(s) ==
  updateCurrentPage(s, [selectedIds |-> <<>>, editingId |-> NoId])

getFirstSelectedBlockId(s) ==
  IF Len(getSelectedBlockIds(s)) > 0 THEN getSelectedBlockIds(s)[1] ELSE NoId

\* addBlockToSelection that leaves the edit mode as it is
addBlockToSelectionKeepingEdit(s, blockId) ==
  IF ~ HasCurrentPage(s) THEN s
  ELSE IF Includes(getCurrentPage(s).selectedIds, blockId) THEN s
  ELSE updateCurrentPage(s,
         [selectedIds |-> Append(getCurrentPage(s).selectedIds, blockId)])

addBlockToSelection(s, blockId) ==
  IF ~ HasCurrentPage(s) THEN s
  ELSE IF Includes(getCurrentPage(s).selectedIds, blockId) THEN s
  ELSE updateCurrentPage(s,
         [selectedIds |-> Append(getCurrentPage(s).selectedIds, blockId),
          editingId |-> NoId])

removeBlockFromSelection(s, blockId) ==
  IF ~ HasCurrentPage(s) THEN s
  ELSE LET other(id) == id # blockId
       IN updateCurrentPage(s,
            [selectedIds |-> Filter(getCurrentPage(s).selectedIds, other),
             editingId |-> NoId])

toggleBlockSelection(s, blockId) ==
  IF isBlockSelected(s, blockId)
  THEN removeBlockFromSelection(s, blockId)
  ELSE addBlockToSelection(s, blockId)

\* the envelope of a non-empty array of blocks
Envelope(blocks) ==
  LET left(b) == b.x
      top(b) == b.y
      right(b) == b.x + b.width
      bottom(b) == b.y + b.height
      minX == SeqMin(blocks, left, left(blocks[1]))
      minY == SeqMin(blocks, top, top(blocks[1]))
      maxX == SeqMax(blocks, right, right(blocks[1]))
      maxY == SeqMax(blocks, bottom, bottom(blocks[1]))
  IN [x |-> minX, y |-> minY, width |-> maxX - minX, height |-> maxY - minY]

getSelectionBoundingBox(s) ==
  LET selectedBlocks == getSelectedBlocks(s)
  IN IF Len(selectedBlocks) = 0 THEN Null
     ELSE IF Len(selectedBlocks) = 1
          THEN [x |-> selectedBlocks[1].x, y |-> selectedBlocks[1].y,
                width |-> selectedBlocks[1].width,
                height |-> selectedBlocks[1].height]
          ELSE Envelope(selectedBlocks)

\* calculatePreviewSelection that leaves out the blocks the marquee only
\* touches
calculatePreviewSelectionStrict(s, selectionBox) ==
  IF ~ HasCurrentPage(s) THEN <<>>
  ELSE LET minX == Min(selectionBox.startX, selectionBox.currentX)
           maxX == Max(selectionBox.startX, selectionBox.currentX)
           minY == Min(selectionBox.startY, selectionBox.currentY)
           maxY == Max(selectionBox.startY, selectionBox.currentY)
           intersects(b) == ~ (b.x >= maxX \/ b.x + b.width <= minX
                               \/ b.y >= maxY \/ b.y + b.height <= minY)
           id(b) == b.id
           intersectingBlockIds == Map(Filter(getCurrentBlocks(s), intersects), id)
       IN IF s.isShiftPressed
          THEN Dedup(getCurrentPage(s).selectedIds \o intersectingBlockIds)
          ELSE intersectingBlockIds

calculatePreviewSelection(s, selectionBox) ==
  IF ~ HasCurrentPage(s) THEN <<>>
  ELSE LET minX == Min(selectionBox.startX, selectionBox.currentX)
           maxX == Max(selectionBox.startX, selectionBox.currentX)
           minY == Min(selectionBox.startY, selectionBox.currentY)
           maxY == Max(selectionBox.startY, selectionBox.currentY)
           intersects(b) == ~ (b.x > maxX \/ b.x + b.width < minX
                               \/ b.y > maxY \/ b.y + b.height < minY)
           idOf(b) == b.id
           intersectingBlockIds == Map(Filter(getCurrentBlocks(s), intersects), idOf)
       IN IF s.isShiftPressed
          THEN Dedup(getCurrentPage(s).selectedIds \o intersectingBlockIds)
          ELSE intersectingBlockIds

\* handleSelectionBoxComplete that leaves the preview as it is
handleSelectionBoxCompleteKeepingPreview(s, selectionBox) ==
  updateCurrentPage(s,
    [selectedIds |-> calculatePreviewSelection(s, selectionBox)])

handleSelectionBoxComplete(s, selectionBox) ==
  updateCurrentPage(s,
    [selectedIds |-> calculatePreviewSelection(s, selectionBox),
     previewSelectedIds |-> <<>>])

isPointInSelectionBounds(s, canvasX, canvasY) ==
  IF Len(getSelectedBlocks(s)) <= 1 THEN FALSE
  ELSE LET boundingBox == getSelectionBoundingBox(s)
       IN /\ canvasX >= boundingBox.x
          /\ canvasX <= boundingBox.x + boundingBox.width
          /\ canvasY >= boundingBox.y
          /\ canvasY <= boundingBox.y + boundingBox.height

----------------------------------------------------------------------------
(* resize.js *)

HasN(handle) == handle \in {"nw", "ne", "n"}
HasW(handle) == handle \in {"nw", "sw", "w"}

RESIZE_CURSORS(handle) ==
  CASE handle \in {"nw", "se"} -> "nwse-resize"
    [] handle \in {"ne", "sw"} -> "nesw-resize"
    [] handle \in {"n", "s"} -> "ns-resize"
    [] handle \in {"w", "e"} -> "ew-resize"

\* RESIZE_HANDLERS[handle](block, {percentX, percentY})
RESIZE_HANDLERS(handle, block, percentX, percentY) ==
  CASE handle = "nw" ->
         [width |-> block.x + block.width - percentX,
          height |-> block.y + block.height - percentY,
          x |-> Min(block.x + block.width - MIN_SIZE, percentX),
          y |-> Min(block.y + block.height - MIN_SIZE, percentY)]
    [] handle = "ne" ->
         [width |-> percentX - block.x,
          height |-> block.y + block.height - percentY,
          x |-> block.x,
          y |-> Min(block.y + block.height - MIN_SIZE, percentY)]
    [] handle = "sw" ->
         [width |-> block.x + block.width - percentX,
          height |-> percentY - block.y,
          x |-> Min(block.x + block.width - MIN_SIZE, percentX),
          y |-> block.y]
    [] handle = "se" ->
         [width |-> percentX - block.x,
          height |-> percentY - block.y,
          x |-> block.x,
          y |-> block.y]
    [] handle = "n" ->
         [width |-> block.width,
          height |-> block.y + block.height - percentY,
          x |-> block.x,
          y |-> Min(block.y + block.height - MIN_SIZE, percentY)]
    [] handle = "s" ->
         [width |-> block.width,
          height |-> percentY - block.y,
          x |-> block.x,
          y |-> block.y]
    [] handle = "w" ->
         [width |-> block.x + block.width - percentX,
          height |-> block.height,
          x |-> Min(block.x + block.width - MIN_SIZE, percentX),
          y |-> block.y]
    [] handle = "e" ->
         [width |-> percentX - block.x,
          height |-> block.height,
          x |-> block.x,
          y |-> block.y]

\* a * b / c, for the quotients the resize code takes (c > 0)
MulDiv(a, b, c) == (a * b) \div c
IsExact(a, b, c) == (a * b) % c = 0

\* a mutation: the candidate of larger area is taken
useWidthConstraintLargerArea(widthArea, heightArea) == widthArea >= heightArea

\* const useWidthConstraint = widthArea <= heightArea
useWidthConstraint(widthArea, heightArea) == widthArea <= heightArea

applyAspectRatioConstraint(dimensions, originalBlock, handle) ==
  \* originalAspectRatio = originalBlock.width / originalBlock.height
  IF handle \in {"nw", "ne", "sw", "se"}
  THEN LET constrainedByWidth ==
             [width |-> dimensions.width,
              height |-> MulDiv(dimensions.width, originalBlock.height,
                                originalBlock.width),
              x |-> dimensions.x, y |-> dimensions.y]
           constrainedByHeight ==
             [width |-> MulDiv(dimensions.height, originalBlock.width,
                               originalBlock.height),
              height |-> dimensions.height,
              x |-> dimensions.x, y |-> dimensions.y]
           widthArea == constrainedByWidth.width * constrainedByWidth.height
           heightArea == constrainedByHeight.width * constrainedByHeight.height
           chosen == IF useWidthConstraint(widthArea, heightArea)
                     THEN constrainedByWidth
                     ELSE constrainedByHeight
           result == [chosen EXCEPT !.width = Max(MIN_SIZE, chosen.width),
                                    !.height = Max(MIN_SIZE, chosen.height)]
       IN IF useWidthConstraint(widthArea, heightArea)
          THEN IF HasN(handle)
               THEN [result EXCEPT
                       !.y = dimensions.y - (result.height - dimensions.height)]
               ELSE result
          ELSE IF HasW(handle)
               THEN [result EXCEPT
                       !.x = dimensions.x - (result.width - dimensions.width)]
               ELSE result
  ELSE IF handle \in {"n", "s"}
  THEN LET newWidth == MulDiv(dimensions.height, originalBlock.width,
                              originalBlock.height)
           widthDiff == newWidth - originalBlock.width
       IN [dimensions EXCEPT !.width = Max(MIN_SIZE, newWidth),
                             !.x = originalBlock.x - (widthDiff \div 2)]
  ELSE IF handle \in {"e", "w"}
  THEN LET newHeight == MulDiv(dimensions.width, originalBlock.height,
                               originalBlock.width)
           heightDiff == newHeight - originalBlock.height
       IN [dimensions EXCEPT !.height = Max(MIN_SIZE, newHeight),
                             !.y = originalBlock.y - (heightDiff \div 2)]
  ELSE dimensions

\* the quotients of applyAspectRatioConstraint are integers
AspectIsExact(dimensions, originalBlock, handle) ==
  IF handle \in {"nw", "ne", "sw", "se"}
  THEN /\ IsExact(dimensions.width, originalBlock.height, originalBlock.width)
       /\ IsExact(dimensions.height, originalBlock.width, originalBlock.height)
  ELSE IF handle \in {"n", "s"}
  THEN /\ IsExact(dimensions.height, originalBlock.width, originalBlock.height)
       /\ (MulDiv(dimensions.height, originalBlock.width, originalBlock.height)
             - originalBlock.width) % 2 = 0
  ELSE /\ IsExact(dimensions.width, originalBlock.height, originalBlock.width)
       /\ (MulDiv(dimensions.width, originalBlock.height, originalBlock.width)
             - originalBlock.height) % 2 = 0

\* (event.clientX - canvasRect.left) / viewport.zoom: #canvas is translated by
\* the page offset inside the viewport, whose top-left corner is the window's
canvasCoordinate(client, offset, zoom) == DivZoom(client - offset, zoom)

virtualBoundingBox(resizing) ==
  [id |-> -1, x |-> resizing.startX, y |-> resizing.startY,
   width |-> resizing.startWidth, height |-> resizing.startHeight, zIndex |-> 0]

\* a mutation: the aspect lock is applied whether or not Shift is held
groupNewBBoxAlwaysLocked(s, resizing, canvasX, canvasY) ==
  applyAspectRatioConstraint(
    RESIZE_HANDLERS(resizing.handle, virtualBoundingBox(resizing), canvasX, canvasY),
    virtualBoundingBox(resizing), resizing.handle)

\* the new bounding box of a group resize
groupNewBBox(s, resizing, canvasX, canvasY) ==
  LET proposed == RESIZE_HANDLERS(resizing.handle, virtualBoundingBox(resizing),
                                  canvasX, canvasY)
  IN IF s.isShiftPressed
     THEN applyAspectRatioConstraint(proposed, virtualBoundingBox(resizing),
                                     resizing.handle)
     ELSE proposed

\* a mutation: the sizes of the resized blocks are not floored
finalSizeUnfloored(size) == size

\* Math.max(MIN_SIZE, size): the last step on the width and the height of
\* every block handleResizePointerMove resizes
finalSize(size) == Max(MIN_SIZE, size)

\* handleResizePointerMove that scales the blocks of a group from where the
\* previous pointer-move left them
handleResizePointerMoveFromCurrent(s, clientX, clientY) ==
  IF ~ HasCurrentPage(s) THEN s
  ELSE IF getCurrentPage(s).resizing = Null THEN s
  ELSE
    LET page == getCurrentPage(s)
        viewport == getCurrentViewport(s)
        canvasX == canvasCoordinate(clientX, viewport.offsetX, viewport.zoom)
        canvasY == canvasCoordinate(clientY, viewport.offsetY, viewport.zoom)
        blocks == getCurrentBlocks(s)
    IN IF page.resizing.id = SelectionBoundingBoxId
       THEN LET newBBox == groupNewBBox(s, page.resizing, canvasX, canvasY)
                \* scaleX = newBBox.width / startWidth, scaleY likewise
                resized(block) ==
                  LET originalBlock == block
                  IN IF originalBlock = Null THEN block
                     ELSE [block EXCEPT
                       !.x = newBBox.x + MulDiv(originalBlock.x - page.resizing.startX,
                                                newBBox.width, page.resizing.startWidth),
                       !.y = newBBox.y + MulDiv(originalBlock.y - page.resizing.startY,
                                                newBBox.height, page.resizing.startHeight),
                       !.width = finalSize(MulDiv(originalBlock.width, newBBox.width,
                                                  page.resizing.startWidth)),
                       !.height = finalSize(MulDiv(originalBlock.height, newBBox.height,
                                                   page.resizing.startHeight))]
            IN updateCurrentPage(s, [blocks |-> Map(blocks, resized)])
       ELSE LET block == FindById(blocks, page.resizing.id)
            IN IF block = Null THEN s
               ELSE
                 LET proposed == RESIZE_HANDLERS(page.resizing.handle, block,
                                                 canvasX, canvasY)
                     originalBlock == [block EXCEPT
                                         !.width = page.resizing.startWidth,
                                         !.height = page.resizing.startHeight,
                                         !.x = page.resizing.startX,
                                         !.y = page.resizing.startY]
                     newDimensions ==
                       IF s.isShiftPressed
                       THEN applyAspectRatioConstraint(proposed, originalBlock,
                                                       page.resizing.handle)
                       ELSE proposed
                     finalWidth == finalSize(newDimensions.width)
                     finalHeight == finalSize(newDimensions.height)
                     resized(b) ==
                       IF b.id = page.resizing.id
                       THEN [b EXCEPT !.x = newDimensions.x, !.y = newDimensions.y,
                                      !.width = finalWidth, !.height = finalHeight]
                       ELSE b
                 IN updateCurrentPage(s, [blocks |-> Map(blocks, resized)])

handleResizePointerMove(s, clientX, clientY) ==
  IF ~ HasCurrentPage(s) THEN s
  ELSE IF getCurrentPage(s).resizing = Null THEN s
  ELSE
    LET page == getCurrentPage(s)
        viewport == getCurrentViewport(s)
        canvasX == canvasCoordinate(clientX, viewport.offsetX, viewport.zoom)
        canvasY == canvasCoordinate(clientY, viewport.offsetY, viewport.zoom)
        blocks == getCurrentBlocks(s)
    IN IF page.resizing.id = SelectionBoundingBoxId
       THEN LET newBBox == groupNewBBox(s, page.resizing, canvasX, canvasY)
                \* scaleX = newBBox.width / startWidth, scaleY likewise
                resized(block) ==
                  LET originalBlock == FindById(page.resizing.originalBlocks, block.id)
                  IN IF originalBlock = Null THEN block
                     ELSE [block EXCEPT
                       !.x = newBBox.x + MulDiv(originalBlock.x - page.resizing.startX,
                                                newBBox.width, page.resizing.startWidth),
                       !.y = newBBox.y + MulDiv(originalBlock.y - page.resizing.startY,
                                                newBBox.height, page.resizing.startHeight),
                       !.width = finalSize(MulDiv(originalBlock.width, newBBox.width,
                                                  page.resizing.startWidth)),
                       !.height = finalSize(MulDiv(originalBlock.height, newBBox.height,
                                                   page.resizing.startHeight))]
            IN updateCurrentPage(s, [blocks |-> Map(blocks, resized)])
       ELSE LET block == FindById(blocks, page.resizing.id)
            IN IF block = Null THEN s
               ELSE
                 LET proposed == RESIZE_HANDLERS(page.resizing.handle, block,
                                                 canvasX, canvasY)
                     originalBlock == [block EXCEPT
                                         !.width = page.resizing.startWidth,
                                         !.height = page.resizing.startHeight,
                                         !.x = page.resizing.startX,
                                         !.y = page.resizing.startY]
                     newDimensions ==
                       IF s.isShiftPressed
                       THEN applyAspectRatioConstraint(proposed, originalBlock,
                                                       page.resizing.handle)
                       ELSE proposed
                     finalWidth == finalSize(newDimensions.width)
                     finalHeight == finalSize(newDimensions.height)
                     resized(b) ==
                       IF b.id = page.resizing.id
                       THEN [b EXCEPT !.x = newDimensions.x, !.y = newDimensions.y,
                                      !.width = finalWidth, !.height = finalHeight]
                       ELSE b
                 IN updateCurrentPage(s, [blocks |-> Map(blocks, resized)])

\* every quotient handleResizePointerMove takes for this event is an integer
ResizeIsExact(s, clientX, clientY) ==
  IF ~ HasCurrentPage(s) THEN TRUE
  ELSE IF getCurrentPage(s).resizing = Null THEN TRUE
  ELSE
    LET page == getCurrentPage(s)
        viewport == getCurrentViewport(s)
        canvasX == canvasCoordinate(clientX, viewport.offsetX, viewport.zoom)
        canvasY == canvasCoordinate(clientY, viewport.offsetY, viewport.zoom)
        blocks == getCurrentBlocks(s)
    IN IF page.resizing.id = SelectionBoundingBoxId
       THEN LET vbb == virtualBoundingBox(page.resizing)
                proposed == RESIZE_HANDLERS(page.resizing.handle, vbb, canvasX, canvasY)
                newBBox == groupNewBBox(s, page.resizing, canvasX, canvasY)
            IN /\ s.isShiftPressed => AspectIsExact(proposed, vbb, page.resizing.handle)
               /\ \A i \in 1..Len(page.resizing.originalBlocks) :
                    LET o == page.resizing.originalBlocks[i]
                    IN /\ IsExact(o.x - page.resizing.startX, newBBox.width,
                                  page.resizing.startWidth)
                       /\ IsExact(o.y - page.resizing.startY, newBBox.height,
                                  page.resizing.startHeight)
                       /\ IsExact(o.width, newBBox.width, page.resizing.startWidth)
                       /\ IsExact(o.height, newBBox.height, page.resizing.startHeight)
       ELSE LET block == FindById(blocks, page.resizing.id)
            IN IF block = Null \/ ~ s.isShiftPressed THEN TRUE
               ELSE AspectIsExact(
                      RESIZE_HANDLERS(page.resizing.handle, block, canvasX, canvasY),
                      [width |-> page.resizing.startWidth,
                       height |-> page.resizing.startHeight,
                       x |-> page.resizing.startX, y |-> page.resizing.startY],
                      page.resizing.handle)

\* ResizeHandle({context: "block"}).onpointerdown on the handle of block blockId
blockHandle_onpointerdown(s, blockId, handle) ==
  LET block == FindById(getCurrentBlocks(s), blockId)
  IN IF block = Null THEN s
     ELSE updateCurrentPage(selectBlock(s, blockId),
            [resizing |-> [id |-> blockId, handle |-> handle,
                           startWidth |-> block.width, startHeight |-> block.height,
                           startX |-> block.x, startY |-> block.y],
             cursorStyle |-> RESIZE_CURSORS(handle)])

\* ResizeHandle({context: "multi"}).onpointerdown
multiHandle_onpointerdown(s, handle) ==
  LET selectedBlocks == getSelectedBlocks(s)
      bbox == getSelectionBoundingBox(s)
      geometry(b) == [id |-> b.id, x |-> b.x, y |-> b.y,
                      width |-> b.width, height |-> b.height]
  IN IF bbox = Null \/ Len(selectedBlocks) <= 1 THEN s
     ELSE updateCurrentPage(s,
            [resizing |-> [id |-> SelectionBoundingBoxId, handle |-> handle,
                           startWidth |-> bbox.width, startHeight |-> bbox.height,
                           startX |-> bbox.x, startY |-> bbox.y,
                           originalBlocks |-> Map(selectedBlocks, geometry)],
             cursorStyle |-> RESIZE_CURSORS(handle)])

----------------------------------------------------------------------------
(* viewport.js: getViewportCenterCoordinates *)

getViewportCenterCoordinates(s) ==
  LET viewportWidth == innerWidth - (IF s.panelsVisible THEN programsPanelWidth ELSE 0)
      viewportHeight == innerHeight
      viewport == getCurrentViewport(s)
  IN [x |-> DivZoom((viewportWidth \div 2) - viewport.offsetX, viewport.zoom),
      y |-> DivZoom((viewportHeight \div 2) - viewport.offsetY, viewport.zoom)]

----------------------------------------------------------------------------
(* block.js *)

isMultiSelect(s) == Len(getSelectedBlocks(s)) > 1

\* block(state)(block).onpointerdown; the event propagates to the viewport
\* exactly when isMultiSelect (see BlockPointerDown)
block_onpointerdown(s, block, shiftKey) ==
  IF ~ HasCurrentPage(s) THEN s
  ELSE IF isMultiSelect(s) THEN s
  ELSE IF getCurrentPage(s).editingId = block.id \/ getCurrentPage(s).isInteractMode
       THEN s
  ELSE IF shiftKey THEN toggleBlockSelection(s, block.id)
  ELSE updateCurrentPage(selectBlock(s, block.id),
         [dragStart |-> [id |-> block.id, startX |-> block.x, startY |-> block.y]])

block_ondblclick(s, block) ==
  IF ~ HasCurrentPage(s) THEN s
  ELSE IF getCurrentPage(s).isInteractMode \/ getCurrentPage(s).isTextEditorFocused
       THEN s
  ELSE updateCurrentPage(selectBlock(s, block.id),
         [editingId |-> block.id, dragStart |-> Null])

zIndexOf(b) == b.zIndex
idOf(b) == b.id

\* sendToFront that gives the block the highest zIndex there is, not one more
sendToFrontAtMax(currentState, blockId) ==
  LET blocks == getCurrentBlocks(currentState)
  IN IF ~ HasId(blocks, blockId) THEN currentState
     ELSE LET maxZIndex == SeqMax(blocks, zIndexOf, blocks[1].zIndex)
              raise(b) == IF b.id = blockId
                          THEN [b EXCEPT !.zIndex = maxZIndex] ELSE b
              newState == updateCurrentPage(currentState,
                                            [blocks |-> Map(blocks, raise)])
          IN saveMementoAndReturn(currentState, newState)

sendToFront(currentState, blockId) ==
  LET blocks == getCurrentBlocks(currentState)
  IN IF ~ HasId(blocks, blockId) THEN currentState
     ELSE LET maxZIndex == SeqMax(blocks, zIndexOf, blocks[1].zIndex)
              raise(b) == IF b.id = blockId
                          THEN [b EXCEPT !.zIndex = maxZIndex + 1] ELSE b
              newState == updateCurrentPage(currentState,
                                            [blocks |-> Map(blocks, raise)])
          IN saveMementoAndReturn(currentState, newState)

sendToBack(currentState, blockId) ==
  LET blocks == getCurrentBlocks(currentState)
  IN IF ~ HasId(blocks, blockId) THEN currentState
     ELSE LET minZIndex == SeqMin(blocks, zIndexOf, blocks[1].zIndex)
              lower(b) == IF b.id = blockId
                          THEN [b EXCEPT !.zIndex = minZIndex - 1] ELSE b
              newState == updateCurrentPage(currentState,
                                            [blocks |-> Map(blocks, lower)])
          IN saveMementoAndReturn(currentState, newState)

\* deleteSelectedBlocks that pushes no memento
deleteSelectedBlocksUncommitted(s) ==
  IF ~ HasCurrentPage(s) THEN s
  ELSE LET currentPage == getCurrentPage(s)
           kept(b) == ~ Includes(currentPage.selectedIds, b.id)
       IN updateCurrentPage(s, [blocks |-> Filter(currentPage.blocks, kept),
                                selectedIds |-> <<>>])

\* deleteSelectedBlocks that leaves selectedIds as it is
deleteSelectedBlocksKeepingSelection(s) ==
  IF ~ HasCurrentPage(s) THEN s
  ELSE LET currentPage == getCurrentPage(s)
           kept(b) == ~ Includes(currentPage.selectedIds, b.id)
           newState == updateCurrentPage(s,
                         [blocks |-> Filter(currentPage.blocks, kept)])
       IN saveMementoAndReturn(s, newState)

deleteSelectedBlocks(s) ==
  IF ~ HasCurrentPage(s) THEN s
  ELSE LET currentPage == getCurrentPage(s)
           kept(b) == ~ Includes(currentPage.selectedIds, b.id)
           newState == updateCurrentPage(s,
                         [blocks |-> Filter(currentPage.blocks, kept),
                          selectedIds |-> <<>>])
       IN saveMementoAndReturn(s, newState)

\* addBlock that takes the new id from the blocks of the current page only
addBlockPageLocalIds(s, position, width, height) ==
  LET viewportCenter == getViewportCenterCoordinates(s)
      x == IF position = Null THEN viewportCenter.x - (width \div 2) ELSE position.x
      y == IF position = Null THEN viewportCenter.y - (height \div 2) ELSE position.y
  IN IF ~ HasCurrentPage(s) THEN s
     ELSE LET globalBlocks == getGlobalBlocks(s)
              newBlock == [id |-> SeqMax(getCurrentBlocks(s), idOf, 0) + 1,
                           width |-> width, height |-> height, x |-> x, y |-> y,
                           zIndex |-> SeqMax(globalBlocks, zIndexOf, 0) + 1]
              newState == updateCurrentPage(s,
                            [blocks |-> Append(getCurrentBlocks(s), newBlock)])
              selectedState == selectBlock(newState, newBlock.id)
          IN saveMementoAndReturn(s, selectedState)

\* addBlock(state, imageSrc, pageSrc, x, y, width, height); position is Null
\* for x = y = null, else [x, y]
addBlock(s, position, width, height) ==
  LET viewportCenter == getViewportCenterCoordinates(s)
      x == IF position = Null THEN viewportCenter.x - (width \div 2) ELSE position.x
      y == IF position = Null THEN viewportCenter.y - (height \div 2) ELSE position.y
  IN IF ~ HasCurrentPage(s) THEN s
     ELSE LET globalBlocks == getGlobalBlocks(s)
              newBlock == [id |-> SeqMax(globalBlocks, idOf, 0) + 1,
                           width |-> width, height |-> height, x |-> x, y |-> y,
                           zIndex |-> SeqMax(globalBlocks, zIndexOf, 0) + 1]
              newState == updateCurrentPage(s,
                            [blocks |-> Append(getCurrentBlocks(s), newBlock)])
              selectedState == selectBlock(newState, newBlock.id)
          IN saveMementoAndReturn(s, selectedState)

----------------------------------------------------------------------------
(* viewport.js *)

handleMiddleMouseDown(s) ==
  updateCurrentPage(deselectAllBlocks(s),
    [isViewportDragging |-> TRUE, cursorStyle |-> "grabbing"])

handleDragStart(s, canvasX, canvasY, isShiftKey) ==
  IF isPointInSelectionBounds(s, canvasX, canvasY) /\ ~ isShiftKey
       /\ Len(getSelectedBlocks(s)) > 0
  THEN LET referenceBlock == getSelectedBlocks(s)[1]
       IN updateCurrentPage(s,
            [dragStart |-> [id |-> referenceBlock.id,
                            startX |-> referenceBlock.x,
                            startY |-> referenceBlock.y]])
  ELSE s

\* handleSelectionBoxStart that leaves the edit mode as it is
handleSelectionBoxStartKeepingEdit(s, canvasX, canvasY, isShiftKey) ==
  updateCurrentPage(s,
    [selectionBox |-> [startX |-> canvasX, startY |-> canvasY,
                       currentX |-> canvasX, currentY |-> canvasY],
     selectedIds |-> IF isShiftKey /\ HasCurrentPage(s)
                     THEN getCurrentPage(s).selectedIds ELSE <<>>,
     previewSelectedIds |-> <<>>])

handleSelectionBoxStart(s, canvasX, canvasY, isShiftKey) ==
  updateCurrentPage(s,
    [selectionBox |-> [startX |-> canvasX, startY |-> canvasY,
                       currentX |-> canvasX, currentY |-> canvasY],
     selectedIds |-> IF isShiftKey /\ HasCurrentPage(s)
                     THEN getCurrentPage(s).selectedIds ELSE <<>>,
     previewSelectedIds |-> <<>>,
     editingId |-> NoId])

\* event = [button, clientX, clientY, shiftKey]
onpointerdown(s, event) ==
  IF event.button = 1 THEN handleMiddleMouseDown(s)
  ELSE
    LET viewport == getCurrentViewport(s)
        canvasX == canvasCoordinate(event.clientX, viewport.offsetX, viewport.zoom)
        canvasY == canvasCoordinate(event.clientY, viewport.offsetY, viewport.zoom)
        dragResult == handleDragStart(s, canvasX, canvasY, event.shiftKey)
    \* dragResult !== state compares references: handleDragStart returns a
    \* new object exactly when it starts a drag
    IN IF isPointInSelectionBounds(s, canvasX, canvasY) /\ ~ event.shiftKey
            /\ Len(getSelectedBlocks(s)) > 0
       THEN dragResult
       ELSE IF event.button = 0
            THEN handleSelectionBoxStart(s, canvasX, canvasY, event.shiftKey)
            ELSE s


\* handleBlockDrag that commits every move to the history
handleBlockDragCommitting(s, dx, dy) ==
  LET viewport == getCurrentViewport(s)
      selectedBlockIds == getSelectedBlockIds(s)
      moved(block) == IF Includes(selectedBlockIds, block.id)
                      THEN [block EXCEPT !.x = block.x + DivZoom(dx, viewport.zoom),
                                         !.y = block.y + DivZoom(dy, viewport.zoom)]
                      ELSE block
  IN saveMementoAndReturn(
       s, updateCurrentPage(s, [blocks |-> Map(getCurrentBlocks(s), moved)]))

\* handleBlockDrag that adds the screen deltas, not divided by the zoom
handleBlockDragUnscaled(s, dx, dy) ==
  LET selectedBlockIds == getSelectedBlockIds(s)
      moved(block) == IF Includes(selectedBlockIds, block.id)
                      THEN [block EXCEPT !.x = block.x + dx, !.y = block.y + dy]
                      ELSE block
  IN updateCurrentPage(s, [blocks |-> Map(getCurrentBlocks(s), moved)])

handleBlockDrag(s, dx, dy) ==
  LET viewport == getCurrentViewport(s)
      adjustedDx == DivZoom(dx, viewport.zoom)
      adjustedDy == DivZoom(dy, viewport.zoom)
      selectedBlockIds == getSelectedBlockIds(s)
      moved(block) == IF Includes(selectedBlockIds, block.id)
                      THEN [block EXCEPT !.x = block.x + adjustedDx,
                                         !.y = block.y + adjustedDy]
                      ELSE block
  IN updateCurrentPage(s, [blocks |-> Map(getCurrentBlocks(s), moved)])

handleViewportDrag(s, dx, dy) ==
  LET viewport == getCurrentViewport(s)
  IN updateCurrentPage(s, [offsetX |-> viewport.offsetX + dx,
                           offsetY |-> viewport.offsetY + dy])

handleSelectionBoxMove(s, event) ==
  IF ~ HasCurrentPage(s) THEN s
  ELSE IF getCurrentPage(s).selectionBox = Null THEN s
  ELSE LET viewport == getCurrentViewport(s)
           updatedSelectionBox ==
             [getCurrentPage(s).selectionBox EXCEPT
                !.currentX = canvasCoordinate(event.clientX, viewport.offsetX,
                                              viewport.zoom),
                !.currentY = canvasCoordinate(event.clientY, viewport.offsetY,
                                              viewport.zoom)]
       IN updateCurrentPage(s,
            [selectionBox |-> updatedSelectionBox,
             previewSelectedIds |-> calculatePreviewSelection(s, updatedSelectionBox)])

onpointermove(s, event) ==
  IF ~ HasCurrentPage(s) THEN s
  ELSE LET currentPage == getCurrentPage(s)
           dx == event.clientX - currentPage.mouseX
           dy == event.clientY - currentPage.mouseY
           s1 == updateCurrentPage(s, [mouseX |-> event.clientX,
                                       mouseY |-> event.clientY])
       IN IF currentPage.resizing # Null
          THEN handleResizePointerMove(s1, event.clientX, event.clientY)
          ELSE IF currentPage.dragStart # Null /\ currentPage.editingId = NoId
          THEN handleBlockDrag(s1, dx, dy)
          ELSE IF currentPage.isViewportDragging
          THEN handleViewportDrag(s1, dx, dy)
          ELSE IF currentPage.selectionBox # Null
          THEN handleSelectionBoxMove(s1, event)
          ELSE s1

\* |a| > 0.1
ExceedsEpsilon(a) == 10 * Abs(a) > 1


\* handleDragCompletion that does not ask whether a block has moved
handleDragCompletionAlways(s, newState) ==
  IF ~ HasCurrentPage(s) THEN newState
  ELSE IF getCurrentPage(s).dragStart = Null THEN newState
  ELSE saveMementoAndReturn(s, newState)

handleDragCompletion(s, newState) ==
  IF ~ HasCurrentPage(s) THEN newState
  ELSE IF getCurrentPage(s).dragStart = Null THEN newState
  ELSE
    LET currentPage == getCurrentPage(s)
        dragStart == currentPage.dragStart
        blocks == getCurrentBlocks(s)
        selectedBlockIds == getSelectedBlockIds(s)
        draggedBlock == FindById(blocks, dragStart.id)
        draggedX == IF draggedBlock = Null THEN 0 ELSE draggedBlock.x
        draggedY == IF draggedBlock = Null THEN 0 ELSE draggedBlock.y
        hasMoved(blockId) ==
          LET block == FindById(blocks, blockId)
          IN IF block = Null THEN FALSE
             ELSE IF blockId = dragStart.id
                  THEN block.x # dragStart.startX \/ block.y # dragStart.startY
                  ELSE \* originalX = block.x + (startX - draggedBlock.x)
                       \/ ExceedsEpsilon(block.x - (block.x + (dragStart.startX - draggedX)))
                       \/ ExceedsEpsilon(block.y - (block.y + (dragStart.startY - draggedY)))
        hasAnyBlockMoved == \E i \in 1..Len(selectedBlockIds) :
                              hasMoved(selectedBlockIds[i])
    IN IF hasAnyBlockMoved /\ draggedBlock # Null
       THEN LET dragDeltaX == draggedBlock.x - dragStart.startX
                dragDeltaY == draggedBlock.y - dragStart.startY
                back(b) == IF Includes(selectedBlockIds, b.id)
                           THEN [b EXCEPT !.x = b.x - dragDeltaX,
                                          !.y = b.y - dragDeltaY]
                           ELSE b
                beforeDragState == updateCurrentPage(s, [blocks |-> Map(blocks, back)])
            IN saveMementoAndReturn(beforeDragState, newState)
       ELSE newState

\* handleResizeCompletion that pushes a memento for every resize, whether or
\* not the resized blocks are on the page and changed
handleResizeCompletionAlways(s, newState) ==
  IF ~ HasCurrentPage(s) THEN newState
  ELSE IF getCurrentPage(s).resizing = Null THEN newState
  ELSE saveMementoAndReturn(s, newState)

handleResizeCompletion(s, newState) ==
  IF ~ HasCurrentPage(s) THEN newState
  ELSE IF getCurrentPage(s).resizing = Null THEN newState
  ELSE
    LET currentPage == getCurrentPage(s)
        resizing == currentPage.resizing
        blocks == getCurrentBlocks(s)
    IN IF resizing.id = SelectionBoundingBoxId
       THEN LET originalBlocks == resizing.originalBlocks
                hasChanged(originalBlock) ==
                  LET currentBlock == FindById(blocks, originalBlock.id)
                  IN /\ currentBlock # Null
                     /\ \/ ExceedsEpsilon(currentBlock.x - originalBlock.x)
                        \/ ExceedsEpsilon(currentBlock.y - originalBlock.y)
                        \/ ExceedsEpsilon(currentBlock.width - originalBlock.width)
                        \/ ExceedsEpsilon(currentBlock.height - originalBlock.height)
                hasAnyBlockChanged == \E i \in 1..Len(originalBlocks) :
                                        hasChanged(originalBlocks[i])
                back(b) ==
                  LET originalBlock == FindById(originalBlocks, b.id)
                  IN IF originalBlock # Null
                     THEN [b EXCEPT !.x = originalBlock.x, !.y = originalBlock.y,
                                    !.width = originalBlock.width,
                                    !.height = originalBlock.height]
                     ELSE b
            IN IF hasAnyBlockChanged
               THEN saveMementoAndReturn(
                      updateCurrentPage(s, [blocks |-> Map(blocks, back)]), newState)
               ELSE newState
       ELSE LET resizedBlock == FindById(blocks, resizing.id)
                back(b) == IF b.id = resizing.id
                           THEN [b EXCEPT !.width = resizing.startWidth,
                                          !.height = resizing.startHeight,
                                          !.x = resizing.startX,
                                          !.y = resizing.startY]
                           ELSE b
            IN IF resizedBlock = Null THEN newState
               ELSE IF \/ resizedBlock.width # resizing.startWidth
                       \/ resizedBlock.height # resizing.startHeight
                       \/ resizedBlock.x # resizing.startX
                       \/ resizedBlock.y # resizing.startY
               THEN saveMementoAndReturn(
                      updateCurrentPage(s, [blocks |-> Map(blocks, back)]), newState)
               ELSE newState

onpointerup(s) ==
  IF ~ HasCurrentPage(s) THEN s
  ELSE
    LET currentPage == getCurrentPage(s)
        cleared == updateCurrentPage(s,
                     [isViewportDragging |-> FALSE, resizing |-> Null,
                      dragStart |-> Null, cursorStyle |-> "default"])
        newState == IF currentPage.selectionBox # Null
                    THEN updateCurrentPage(
                           handleSelectionBoxComplete(cleared, currentPage.selectionBox),
                           [selectionBox |-> Null])
                    ELSE cleared
    IN IF currentPage.dragStart # Null THEN handleDragCompletion(s, newState)
       ELSE IF currentPage.resizing # Null THEN handleResizeCompletion(s, newState)
       ELSE newState

\* a mutation: the zoom is not kept within [0.1, 5]
clampZoomUnbounded(zoom) == zoom

\* Math.max(0.1, Math.min(5, zoom)), in hundredths
clampZoom(zoom) == Max(ZoomScale \div 10, Min(5 * ZoomScale, zoom))

\* const isTrackpad = Math.abs(event.deltaY) < 50 && !event.ctrlKey
isTrackpad(event) == Abs(event.deltaY) < 50 /\ ~ event.ctrlKey

\* relativeMouseX = page.mouseX - rect.left: the viewport's rectangle starts
\* at the window's top-left corner
relativeMouse(mouse) == mouse - 0

\* onwheel(state, event); event.deltaY is a whole number of pixels, so that
\* zoomDelta = -event.deltaY * 0.01 is -event.deltaY hundredths
onwheel(s, event) ==
  IF ~ HasCurrentPage(s) THEN s
  ELSE
    LET page == getCurrentPage(s)
    IN IF isTrackpad(event)
       THEN updateCurrentPage(s, [offsetX |-> page.offsetX - event.deltaX,
                                  offsetY |-> page.offsetY - event.deltaY])
       ELSE IF event.ctrlKey \/ event.metaKey
       THEN LET newZoom == clampZoom(page.zoom - event.deltaY)
                relativeMouseX == relativeMouse(page.mouseX)
                relativeMouseY == relativeMouse(page.mouseY)
                \* zoomRatio = newZoom / page.zoom
                newOffsetX == relativeMouseX
                                - MulDiv(relativeMouseX - page.offsetX, newZoom, page.zoom)
                newOffsetY == relativeMouseY
                                - MulDiv(relativeMouseY - page.offsetY, newZoom, page.zoom)
            IN updateCurrentPage(s, [zoom |-> newZoom, offsetX |-> newOffsetX,
                                     offsetY |-> newOffsetY])
       ELSE s

\* the quotients onwheel takes for this event are integers
WheelIsExact(s, event) ==
  IF ~ HasCurrentPage(s) THEN TRUE
  ELSE LET page == getCurrentPage(s)
           newZoom == clampZoom(page.zoom - event.deltaY)
       IN /\ IsExact(relativeMouse(page.mouseX) - page.offsetX, newZoom, page.zoom)
          /\ IsExact(relativeMouse(page.mouseY) - page.offsetY, newZoom, page.zoom)

\* onkeydown(state, event) for the keys that act on the canvas;
\* ctrl stands for event.ctrlKey || event.metaKey
onkeydown(s, key, ctrl, shiftKey) ==
  IF ~ HasCurrentPage(s) THEN s
  ELSE IF getCurrentPage(s).isTextEditorFocused THEN s
  ELSE
    LET currentPage == getCurrentPage(s)
    IN CASE key = "Escape" ->
              IF currentPage.editingId # NoId
              THEN updateCurrentPage(s, [editingId |-> NoId])
              ELSE IF hasSelection(s) THEN deselectAllBlocks(s) ELSE s
         [] key \in {"Delete", "Backspace"} ->
              IF getFirstSelectedBlockId(s) # NoId /\ currentPage.editingId = NoId
              THEN deleteSelectedBlocks(s)
              ELSE s
         [] key \in {"z", "Z"} ->
              IF ctrl /\ currentPage.editingId = NoId
              THEN IF shiftKey THEN redoState(s) ELSE undoState(s)
              ELSE s
         [] key = "y" ->
              IF ctrl /\ currentPage.editingId = NoId THEN redoState(s) ELSE s
         [] OTHER -> s

\* app.js: KeyDown and KeyUp
KeyDown(s, key, ctrl, shiftKey) ==
  LET viewportResult == onkeydown(s, key, ctrl, shiftKey)
  IN IF viewportResult # s THEN viewportResult
     ELSE IF key = "Shift" THEN [s EXCEPT !.isShiftPressed = TRUE]
     ELSE s

KeyUp(s, key) ==
  IF key = "Shift" THEN [s EXCEPT !.isShiftPressed = FALSE] ELSE s

\* app.js: initialState()
initialState(pageId) ==
  [pages |-> <<defaultPage(pageId)>>,
   currentPageId |-> pageId,
   mementoManager |-> createMementoManager,
   panelsVisible |-> TRUE,
   isShiftPressed |-> FALSE]

----------------------------------------------------------------------------
(* The state machine: one action per event the page can receive *)

\* a state app.js's initialize() can load from user/state.json: two blocks
\* added on the first page, the second one dragged to the right
loadedState(pageId, nBlocks, selectedIds) ==
  [initialState(pageId) EXCEPT
     !.pages = <<[defaultPage(pageId) EXCEPT
                    !.blocks = SubSeq(<<[id |-> 1, width |-> DefaultBlockSize,
                                         height |-> DefaultBlockSize,
                                         x |-> 500, y |-> 200, zIndex |-> 1],
                                        [id |-> 2, width |-> DefaultBlockSize,
                                         height |-> DefaultBlockSize,
                                         x |-> 0, y |-> 200, zIndex |-> 2]>>,
                                      1, nBlocks),
                    !.selectedIds = selectedIds,
                    !.cursorStyle = "default"]>>]

geometry(b) == [id |-> b.id, x |-> b.x, y |-> b.y, width |-> b.width,
                height |-> b.height]
GeometryOf(blocks) == Map(blocks, geometry)

\* the top of the undo stack holds every block of blocks at its geometry
MementoHolds(s, pageId, blocks) ==
  LET undoStack == s.mementoManager.undoStack
  IN /\ Len(undoStack) > 0
     /\ \E i \in 1..Len(undoStack[Len(undoStack)].pages) :
          LET page == undoStack[Len(undoStack)].pages[i]
          IN /\ page.id = pageId
             /\ \A j \in 1..Len(blocks) :
                  /\ HasId(page.blocks, blocks[j].id)
                  /\ geometry(FindById(page.blocks, blocks[j].id)) = geometry(blocks[j])

IdlePointer ==
  [down |-> FALSE, target |-> "none", blocks |-> <<>>, manager |-> Null,
   onlyMoves |-> TRUE, moves |-> 0, completed |-> "none", changed |-> FALSE,
   moved |-> FALSE, pushed |-> 0, sameHistory |-> TRUE, mementoHolds |-> TRUE]

\* the pointer is pressed: remember the current page's blocks and the history
PressedPointer(s, target) ==
  [IdlePointer EXCEPT !.down = TRUE, !.target = target,
                      !.blocks = getCurrentBlocks(s),
                      !.manager = s.mementoManager]

\* the pointer is released: what the gesture did, for the record
ReleasedPointer(s, next) ==
  [pointer EXCEPT
     !.down = FALSE,
     !.blocks = <<>>,
     !.manager = Null,
     !.completed = IF ~ HasCurrentPage(s) THEN "none"
                   ELSE IF getCurrentPage(s).dragStart # Null THEN "drag"
                   ELSE IF getCurrentPage(s).resizing # Null THEN "resize"
                   ELSE "none",
     !.changed = GeometryOf(getCurrentBlocks(s)) # GeometryOf(pointer.blocks),
     !.moved = \E j \in 1..Len(pointer.blocks) :
                 /\ HasId(getCurrentBlocks(s), pointer.blocks[j].id)
                 /\ geometry(FindById(getCurrentBlocks(s), pointer.blocks[j].id))
                      # geometry(pointer.blocks[j]),
     !.pushed = Len(next.mementoManager.undoStack) - Len(s.mementoManager.undoStack),
     !.sameHistory = (next.mementoManager = pointer.manager),
     !.mementoHolds = MementoHolds(next, s.currentPageId, pointer.blocks)]

\* an event other than a pointer event arrives
PointerAfterOther ==
  IF pointer.down THEN [pointer EXCEPT !.onlyMoves = FALSE] ELSE IdlePointer

\* what the handler that took s to next did to the history: whether the top
\* of undoStack is the snapshot of s, and whether one undo gives back the
\* pages (with selectedIds, dragStart and resizing reset) and the
\* currentPageId of s
CommitOf(s, next) ==
  [snapshot |-> /\ Len(next.mementoManager.undoStack) > 0
                /\ next.mementoManager.undoStack[Len(next.mementoManager.undoStack)]
                     = createMemento(s),
   restores |-> /\ undoState(next).pages = createMemento(s).pages
                /\ undoState(next).currentPageId = s.currentPageId,
   unchanged |-> next = s]

NoCommit == [snapshot |-> FALSE, restores |-> FALSE, unchanged |-> TRUE]

\* the states the model explores
WithinBounds(s) ==
  /\ Len(s.pages) <= MaxPages
  /\ Len(getGlobalBlocks(s)) <= MaxBlocks
  /\ Len(s.mementoManager.undoStack) + Len(s.mementoManager.redoStack) <= MaxUndo

Contains(b, canvasX, canvasY) ==
  /\ b.x <= canvasX /\ canvasX <= b.x + b.width
  /\ b.y <= canvasY /\ canvasY <= b.y + b.height

\* blocks[i] is the block painted on top at the point
TopmostAt(blocks, i, canvasX, canvasY) ==
  /\ Contains(blocks[i], canvasX, canvasY)
  /\ \A j \in 1..Len(blocks) :
       (j # i /\ Contains(blocks[j], canvasX, canvasY)) =>
         \/ blocks[j].zIndex < blocks[i].zIndex
         \/ (blocks[j].zIndex = blocks[i].zIndex /\ j < i)

CanvasX(s, clientX) ==
  canvasCoordinate(clientX, getCurrentViewport(s).offsetX, getCurrentViewport(s).zoom)
CanvasY(s, clientY) ==
  canvasCoordinate(clientY, getCurrentViewport(s).offsetY, getCurrentViewport(s).zoom)

PointerEvent(s, button, clientX, clientY) ==
  [button |-> button, clientX |-> clientX, clientY |-> clientY,
   shiftKey |-> s.isShiftPressed]

\* the handler of an event returned next; an event that is neither a press
\* nor a release and whose handler returns the state it was given is a
\* stuttering step
Step(next, event, nextPointer) ==
  /\ next # state \/ nextPointer.down # pointer.down
  /\ changes < MaxChanges
  /\ WithinBounds(next)
  /\ state' = next
  /\ lastEvent' = event
  /\ pointer' = nextPointer
  /\ changes' = changes + 1
  /\ commit' = CommitOf(state, next)
  /\ UNCHANGED <<uuid, ipc>>

\* pointerdown on empty canvas: viewport.onpointerdown
ViewportPointerDown ==
  \E button \in Buttons, clientX \in PointerXs, clientY \in PointerYs :
    /\ ~ pointer.down
    /\ \A i \in 1..Len(getCurrentBlocks(state)) :
         ~ Contains(getCurrentBlocks(state)[i], CanvasX(state, clientX),
                    CanvasY(state, clientY))
    /\ Step(onpointerdown(state, PointerEvent(state, button, clientX, clientY)),
            "viewport.pointerdown", PressedPointer(state, "viewport"))

\* pointerdown on a block: block.onpointerdown, then, when the handler did
\* not stop the propagation (isMultiSelect), viewport.onpointerdown
BlockPointerDown ==
  \E button \in Buttons, clientX \in PointerXs, clientY \in PointerYs :
    \E i \in 1..Len(getCurrentBlocks(state)) :
      /\ ~ pointer.down
      /\ TopmostAt(getCurrentBlocks(state), i, CanvasX(state, clientX),
                   CanvasY(state, clientY))
      /\ LET event == PointerEvent(state, button, clientX, clientY)
             s1 == block_onpointerdown(state, getCurrentBlocks(state)[i],
                                       event.shiftKey)
         IN Step(IF isMultiSelect(state) THEN onpointerdown(s1, event) ELSE s1,
                 "block.pointerdown", PressedPointer(state, "block"))

\* pointerdown on a resize handle of the single selected block
BlockHandlePointerDown ==
  \E handle \in GestureHandles :
    \E i \in 1..Len(getCurrentBlocks(state)) :
      LET block == getCurrentBlocks(state)[i]
      IN /\ ~ pointer.down
         /\ isBlockSelected(state, block.id)
         /\ getCurrentPage(state).editingId # block.id
         /\ ~ isMultiSelect(state)
         /\ Step(blockHandle_onpointerdown(state, block.id, handle),
                 "handle.pointerdown", PressedPointer(state, "handle"))

\* pointerdown on a resize handle of the selection bounding box
MultiHandlePointerDown ==
  \E handle \in GestureHandles :
    /\ ~ pointer.down
    /\ isMultiSelect(state)
    /\ getCurrentPage(state).resizing = Null
    /\ Step(multiHandle_onpointerdown(state, handle),
            "multihandle.pointerdown", PressedPointer(state, "multihandle"))

PointerMove ==
  \E clientX \in PointerXs, clientY \in PointerYs :
    /\ ResizeIsExact(state, clientX, clientY)
    /\ Step(onpointermove(state, PointerEvent(state, 0, clientX, clientY)),
            "pointermove",
            IF pointer.down
            THEN [pointer EXCEPT !.moves = Min(MaxMoves, @ + 1)]
            ELSE IdlePointer)

PointerUp ==
  /\ pointer.down
  /\ Step(onpointerup(state), "pointerup", ReleasedPointer(state, onpointerup(state)))

BlockDblClick ==
  \E i \in 1..Len(getCurrentBlocks(state)) :
    /\ ~ pointer.down
    /\ lastEvent = "pointerup"
    /\ Step(block_ondblclick(state, getCurrentBlocks(state)[i]),
            "block.dblclick", IdlePointer)

KeyEscape ==
  /\ HasCurrentPage(state)
  /\ Step(KeyDown(state, "Escape", FALSE, state.isShiftPressed), "key.Escape",
          PointerAfterOther)

KeyDelete ==
  /\ HasCurrentPage(state)
  /\ Step(KeyDown(state, "Delete", FALSE, state.isShiftPressed), "key.Delete",
          PointerAfterOther)

KeyUndo ==
  /\ ~ state.isShiftPressed
  /\ Step(KeyDown(state, "z", TRUE, FALSE), "key.undo", PointerAfterOther)

KeyRedo ==
  /\ HasCurrentPage(state)
  /\ Step(KeyDown(state, IF state.isShiftPressed THEN "Z" ELSE "y", TRUE,
                  state.isShiftPressed),
          "key.redo", PointerAfterOther)

KeyShiftDown ==
  /\ ~ state.isShiftPressed
  /\ Step(KeyDown(state, "Shift", FALSE, TRUE), "key.Shift", PointerAfterOther)

KeyShiftUp ==
  /\ state.isShiftPressed
  /\ Step(KeyUp(state, "Shift"), "keyup.Shift", PointerAfterOther)

\* ClipboardMonitor: an image arrived in the clipboard and was saved; the
\* dispatched action adds a block in the centre of the viewport
ClipboardAddBlock ==
  /\ HasCurrentPage(state)
  /\ Step(addBlock(state, Null, DefaultBlockSize, DefaultBlockSize),
          "addBlock", PointerAfterOther)

\* the order buttons of the panel act on getSelectedBlocks(state)[0]
SendToFront ==
  /\ ~ pointer.down
  /\ Len(getSelectedBlocks(state)) > 0
  /\ Step(sendToFront(state, getSelectedBlocks(state)[1].id), "sendToFront",
          IdlePointer)

SendToBack ==
  /\ ~ pointer.down
  /\ Len(getSelectedBlocks(state)) > 0
  /\ Step(sendToBack(state, getSelectedBlocks(state)[1].id), "sendToBack",
          IdlePointer)

CreatePage ==
  /\ ~ pointer.down
  /\ changes < MaxChanges
  /\ LET next == createPage(state, uuid + 1, "new page")
     IN /\ WithinBounds(next)
        /\ state' = next
        /\ uuid' = uuid + 1
        /\ UNCHANGED ipc
        /\ lastEvent' = "createPage"
        /\ pointer' = IdlePointer
        /\ changes' = changes + 1
        /\ commit' = CommitOf(state, next)

SwitchPage ==
  \E i \in 1..Len(state.pages) :
    /\ ~ pointer.down
    /\ state.pages[i].id # state.currentPageId
    /\ Step(switchPage(state, state.pages[i].id), "switchPage", IdlePointer)

DeletePage ==
  \E i \in 1..Len(state.pages) :
    /\ ~ pointer.down
    /\ Len(state.pages) > 1
    /\ Step(deletePage(state, state.pages[i].id), "deletePage", IdlePointer)

RenamePage ==
  \E i \in 1..Len(state.pages), newName \in PageNames :
    /\ ~ pointer.down
    /\ Step(renamePage(state, state.pages[i].id, newName), "renamePage",
            IdlePointer)

Init ==
  /\ uuid = 1
  /\ ipc = NoIpc
  /\ state \in {initialState(1), loadedState(1, 1, <<>>),
                loadedState(1, 2, <<>>), loadedState(1, 2, <<1, 2>>)}
  /\ pointer = IdlePointer
  /\ lastEvent = "init"
  /\ changes = 0
  /\ commit = NoCommit

Next ==
  \/ ViewportPointerDown
  \/ BlockPointerDown
  \/ BlockHandlePointerDown
  \/ MultiHandlePointerDown
  \/ PointerMove
  \/ PointerUp
  \/ BlockDblClick
  \/ KeyEscape
  \/ KeyDelete
  \/ KeyUndo
  \/ KeyRedo
  \/ KeyShiftDown
  \/ KeyShiftUp
  \/ ClipboardAddBlock
  \/ SendToFront
  \/ SendToBack
  \/ CreatePage
  \/ SwitchPage
  \/ DeletePage
  \/ RenamePage

Spec == Init /\ [][Next]_vars

----------------------------------------------------------------------------
(* Gestures and the undo history *)

PointerDownEvents ==
  {"viewport.pointerdown", "block.pointerdown", "handle.pointerdown",
   "multihandle.pointerdown"}

undoStackOf(s) == s.mementoManager.undoStack
redoStackOf(s) == s.mementoManager.redoStack

\* C1: the pointer-down and pointer-move handlers never change the
\* mementoManager; a pointer-up pushes at most one memento; and a gesture
\* made of a press, any number of moves and a release that leaves a block
\* with another geometry adds exactly one undo entry.
C1_OneUndoEntryPerGesture ==
  [][/\ (lastEvent' \in PointerDownEvents \cup {"pointermove"})
          => state'.mementoManager = state.mementoManager
     /\ lastEvent' = "pointerup"
          => \/ undoStackOf(state') = undoStackOf(state)
             \/ /\ Len(undoStackOf(state')) = Len(undoStackOf(state)) + 1
                /\ SubSeq(undoStackOf(state'), 1, Len(undoStackOf(state)))
                     = undoStackOf(state)
     /\ (lastEvent' = "pointerup" /\ pointer'.onlyMoves /\ pointer'.changed)
          => Len(undoStackOf(state')) = Len(undoStackOf(state)) + 1]_vars

\* a drag of two moves that changed the geometry was released and pushed one
\* memento
C1_Witness ==
  /\ lastEvent = "pointerup"
  /\ pointer.onlyMoves
  /\ pointer.moves = 2
  /\ pointer.changed
  /\ pointer.pushed = 1

\* C2: the memento pushed at a pointer-up holds every block at the geometry it
\* had at the pointer-down, whatever events came in between.
C2_MementoHoldsPointerDownGeometry ==
  (lastEvent = "pointerup" /\ pointer.pushed = 1) => pointer.mementoHolds

\* C3: a gesture made of a press, moves and a release that leaves every block
\* with the geometry it had leaves undoStack and redoStack as they were at
\* the press.
C3_NoNetChangeNoHistory ==
  (lastEvent = "pointerup" /\ pointer.onlyMoves /\ ~ pointer.changed)
    => pointer.sameHistory

\* a block was dragged away and back, and released, with a history that is
\* not empty
C3_Witness ==
  /\ lastEvent = "pointerup"
  /\ pointer.onlyMoves
  /\ pointer.target = "block"
  /\ pointer.moves = 2
  /\ ~ pointer.changed
  /\ pointer.sameHistory
  /\ Len(undoStackOf(state)) + Len(redoStackOf(state)) > 0

----------------------------------------------------------------------------
(* Gesture records *)

ActiveGestures(page) ==
  (IF page.resizing # Null THEN 1 ELSE 0)
  + (IF page.dragStart # Null THEN 1 ELSE 0)
  + (IF page.selectionBox # Null THEN 1 ELSE 0)
  + (IF page.isViewportDragging THEN 1 ELSE 0)

\* C4: in every reachable state and on every page at most one of
\* resizing # null, dragStart # null, selectionBox # null and
\* isViewportDragging holds.
C4_AtMostOneGesture ==
  \A i \in 1..Len(state.pages) : ActiveGestures(state.pages[i]) <= 1

----------------------------------------------------------------------------
(* The undo history *)

RECURSIVE undoTimes(_, _)
undoTimes(s, n) == IF n = 0 THEN s ELSE undoTimes(undoState(s), n - 1)

RECURSIVE redoTimes(_, _)
redoTimes(s, n) == IF n = 0 THEN s ELSE redoTimes(redoState(s), n - 1)

\* pages with the transient selection fields ignored
WithoutSelection(pages) ==
  [i \in 1..Len(pages) |->
     [selectedIds |-> <<>>, dragStart |-> Null, resizing |-> Null] @@ pages[i]]

\* C5: in a state whose last history operation was a commit (redoStack is
\* empty), n undoState followed by n redoState give back the pages (ignoring
\* selectedIds, dragStart and resizing), the currentPageId and the undoStack.
C5_UndoRedoRoundTrip ==
  \A n \in 1..(MaxUndo + 1) :
    redoStackOf(state) = <<>> =>
      LET back == redoTimes(undoTimes(state, n), n)
      IN /\ WithoutSelection(back.pages) = WithoutSelection(state.pages)
         /\ back.currentPageId = state.currentPageId
         /\ undoStackOf(back) = undoStackOf(state)

\* two commits were made, the second with blocks selected, and two undos lead
\* to other pages
C5_Witness ==
  /\ redoStackOf(state) = <<>>
  /\ Len(undoStackOf(state)) = 2
  /\ commit.snapshot
  /\ HasCurrentPage(state)
  /\ hasSelection(state)
  /\ undoTimes(state, 2).pages # state.pages
  /\ undoTimes(state, 1).pages # undoTimes(state, 2).pages

AtomicMutations ==
  {"addBlock", "key.Delete", "sendToFront", "sendToBack", "createPage",
   "deletePage", "renamePage"}

\* C7: every structural mutation pushes the snapshot of the state before it
\* and leaves redoStack empty, and one undo right after it gives back the
\* pages and currentPageId of that state; for a drag or resize released with
\* a block at another geometry than at the pointer-down, the state before it
\* is the one at the pointer-down.
C7_MutationPushesSnapshot ==
  /\ lastEvent \in AtomicMutations
       => /\ commit.snapshot
          /\ redoStackOf(state) = <<>>
          /\ commit.restores
  /\ (lastEvent = "pointerup" /\ pointer.completed # "none" /\ pointer.moved)
       => /\ pointer.pushed = 1
          /\ redoStackOf(state) = <<>>
          /\ pointer.mementoHolds

MementoPageIsClean(page) ==
  /\ page.selectedIds = <<>>
  /\ page.dragStart = Null
  /\ page.resizing = Null
  /\ page.previewSelectedIds = <<>>
  /\ page.selectionBox = Null

MementoIsClean(memento) ==
  \A i \in 1..Len(memento.pages) : MementoPageIsClean(memento.pages[i])

\* C8: every memento on undoStack or redoStack has, on each of its pages,
\* selectedIds empty, dragStart null, resizing null, previewSelectedIds empty
\* and selectionBox null.
C8_MementosAreClean ==
  /\ \A i \in 1..Len(undoStackOf(state)) : MementoIsClean(undoStackOf(state)[i])
  /\ \A i \in 1..Len(redoStackOf(state)) : MementoIsClean(redoStackOf(state)[i])

\* C9: in the state an undo or a redo returns, every page has editingId null,
\* isViewportDragging false, selectionBox, dragStart and resizing null, and
\* selectedIds and previewSelectedIds empty.
C9_UndoRedoRestoresNoInteraction ==
  lastEvent \in {"key.undo", "key.redo"} =>
    \A i \in 1..Len(state.pages) :
      /\ state.pages[i].editingId = NoId
      /\ ~ state.pages[i].isViewportDragging
      /\ MementoPageIsClean(state.pages[i])

----------------------------------------------------------------------------
(* The history on its own: commits, undos and redos up to the real          *)
(* maxHistorySize. Each commit renames the current page to the number that *)
(* follows its name, so the mementos on the stacks differ from one another *)
(* and a run is determined by the lowest, the current and the highest name.*)

NameIndex(name) ==
  IF \E k \in 1..MaxCommits : ToString(k) = name
  THEN CHOOSE k \in 1..MaxCommits : ToString(k) = name
  ELSE 0

HistoryStep(next, event) ==
  /\ state' = next
  /\ lastEvent' = event
  /\ commit' = CommitOf(state, next)
  /\ pointer' = IdlePointer
  /\ UNCHANGED <<uuid, changes, ipc>>

HistoryRename ==
  /\ NameIndex(getCurrentPage(state).name) < MaxCommits
  /\ HistoryStep(renamePage(state, state.currentPageId,
                            ToString(NameIndex(getCurrentPage(state).name) + 1)),
                 "renamePage")

HistoryUndo ==
  /\ HasCurrentPage(state)
  /\ HistoryStep(KeyDown(state, "z", TRUE, FALSE), "key.undo")

HistoryRedo ==
  /\ HasCurrentPage(state)
  /\ HistoryStep(KeyDown(state, "y", TRUE, FALSE), "key.redo")

InitHistory ==
  /\ uuid = 1
  /\ ipc = NoIpc
  /\ state \in {initialState(1), loadedState(1, 2, <<1, 2>>)}
  /\ pointer = IdlePointer
  /\ lastEvent = "init"
  /\ changes = 0
  /\ commit = NoCommit

NextHistory ==
  \/ HistoryRename
  \/ HistoryUndo
  \/ HistoryRedo

SpecHistory == InitHistory /\ [][NextHistory]_vars

\* C6: undoStack never holds more than maxHistorySize (50) mementos; a commit
\* made when it holds 50 drops the oldest and keeps the other 49 in order
\* with the snapshot of the state before the commit on top.
C6_UndoStackBound ==
  [][/\ Len(undoStackOf(state')) <= maxHistorySize
     /\ (lastEvent' = "renamePage" /\ Len(undoStackOf(state)) = maxHistorySize)
          => undoStackOf(state')
               = Append(Tail(undoStackOf(state)), createMemento(state))]_vars

\* a commit was made on a full undoStack
C6_Witness ==
  /\ lastEvent = "renamePage"
  /\ Len(undoStackOf(state)) = maxHistorySize
  /\ NameIndex(getCurrentPage(state).name) > maxHistorySize
  /\ undoStackOf(state)[1].pages[1].name = ToString(1)

\* C10: undoState on an empty undoStack and redoState on an empty redoStack
\* return the state they were given, and so do the keys that call them.
C10_EmptyStackNoOp ==
  [][/\ undoStackOf(state) = <<>> => undoState(state) = state
     /\ redoStackOf(state) = <<>> => redoState(state) = state
     /\ (lastEvent' = "key.undo" /\ undoStackOf(state) = <<>>) => state' = state
     /\ (lastEvent' = "key.redo" /\ redoStackOf(state) = <<>>) => state' = state]_vars

\* redo was pressed with nothing to redo and a commit on undoStack
C10_Witness ==
  /\ lastEvent = "key.redo"
  /\ commit.unchanged
  /\ redoStackOf(state) = <<>>
  /\ Len(undoStackOf(state)) > 0

----------------------------------------------------------------------------
(* Resizing: every handle, alone and on a group, with and without the
   aspect lock, for pointer positions on both sides of every edge *)

\* canvas coordinates of the pointer: beyond, near and past the edges of the
\* blocks of resizeState
ResizeXs == {-30, 12, 90, 120, 140, 300}
ResizeYs == {-40, 10, 40, 90, 200}

CornerHandles == {"nw", "ne", "sw", "se"}

\* a loaded page panned by (200, 200) with its blocks selected
resizeState(blocks, isShiftPressed) ==
  [initialState(1) EXCEPT
     !.pages = <<[defaultPage(1) EXCEPT
                    !.blocks = blocks,
                    !.offsetX = 200, !.offsetY = 200,
                    !.selectedIds = Map(blocks, idOf),
                    !.cursorStyle = "default"]>>,
     !.isShiftPressed = isShiftPressed]

\* one block of aspect ratio 2
singleBlock ==
  <<[id |-> 1, x |-> 0, y |-> 0, width |-> 100, height |-> 50, zIndex |-> 1]>>

\* two blocks side by side, the second one half the size of the first
groupBlocks ==
  <<[id |-> 1, x |-> 0, y |-> 0, width |-> 100, height |-> 100, zIndex |-> 1],
    [id |-> 2, x |-> 100, y |-> 0, width |-> 50, height |-> 50, zIndex |-> 2]>>

\* the record of the resize gesture: the handle, the blocks at pointer-down,
\* the values isShiftPressed took at the pointer-moves, and the state and the
\* canvas point of the last pointer-move
IdleResize ==
  [down |-> FALSE, handle |-> "none", group |-> FALSE, start |-> <<>>,
   locks |-> {}, moves |-> 0, before |-> Null, x |-> 0, y |-> 0]

PressedResize(s, handle, group) ==
  [IdleResize EXCEPT !.down = TRUE, !.handle = handle, !.group = group,
                     !.start = getSelectedBlocks(s)]

ResizeStep(next, event, nextPointer) ==
  /\ changes < MaxResizeEvents
  /\ state' = next
  /\ lastEvent' = event
  /\ pointer' = nextPointer
  /\ changes' = changes + 1
  /\ commit' = CommitOf(state, next)
  /\ UNCHANGED <<uuid, ipc>>

\* pointerdown on one of the eight handles of the selected block
ResizeBlockHandleDown ==
  \E handle \in Handles :
    /\ ~ pointer.down
    /\ ~ isMultiSelect(state)
    /\ hasSelection(state)
    /\ getCurrentPage(state).resizing = Null
    /\ ResizeStep(blockHandle_onpointerdown(state, getFirstSelectedBlockId(state),
                                            handle),
                  "handle.pointerdown", PressedResize(state, handle, FALSE))

\* pointerdown on one of the eight handles of the selection bounding box
ResizeMultiHandleDown ==
  \E handle \in Handles :
    /\ ~ pointer.down
    /\ isMultiSelect(state)
    /\ getCurrentPage(state).resizing = Null
    /\ ResizeStep(multiHandle_onpointerdown(state, handle),
                  "multihandle.pointerdown", PressedResize(state, handle, TRUE))

\* pointermove while a handle is held, to the canvas point (x, y)
ResizePointerMove ==
  \E x \in ResizeXs, y \in ResizeYs :
    LET clientX == x + getCurrentViewport(state).offsetX
        clientY == y + getCurrentViewport(state).offsetY
    IN /\ pointer.down
       /\ pointer.moves < MaxMoves
       /\ ResizeIsExact(state, clientX, clientY)
       /\ ResizeStep(onpointermove(state, PointerEvent(state, 0, clientX, clientY)),
                     "pointermove",
                     [pointer EXCEPT !.moves = @ + 1,
                                     !.locks = @ \cup {state.isShiftPressed},
                                     !.before = state, !.x = x, !.y = y])

ResizeShiftDown ==
  /\ ~ state.isShiftPressed
  /\ ResizeStep(KeyDown(state, "Shift", FALSE, TRUE), "key.Shift", pointer)

ResizeShiftUp ==
  /\ state.isShiftPressed
  /\ ResizeStep(KeyUp(state, "Shift"), "keyup.Shift", pointer)

ResizePointerUp ==
  /\ pointer.down
  /\ ResizeStep(onpointerup(state), "pointerup",
                [pointer EXCEPT !.down = FALSE])

InitResize ==
  /\ uuid = 1
  /\ ipc = NoIpc
  /\ \E blocks \in {singleBlock, groupBlocks}, isShiftPressed \in BOOLEAN :
       state = resizeState(blocks, isShiftPressed)
  /\ pointer = IdleResize
  /\ lastEvent = "init"
  /\ changes = 0
  /\ commit = NoCommit

NextResize ==
  \/ ResizeBlockHandleDown
  \/ ResizeMultiHandleDown
  \/ ResizePointerMove
  \/ ResizeShiftDown
  \/ ResizeShiftUp
  \/ ResizePointerUp

SpecResize == InitResize /\ [][NextResize]_vars

\* the block the pointer-move resized, before and after it
resizedBefore == FindById(getCurrentBlocks(pointer.before), getCurrentPage(state).resizing.id)
resizedAfter == FindById(getCurrentBlocks(state), getCurrentPage(state).resizing.id)

\* the last event was a pointer-move of a resize gesture
AfterResizeMove ==
  /\ lastEvent = "pointermove"
  /\ pointer.down
  /\ pointer.before # Null
  /\ getCurrentPage(state).resizing # Null

\* C11: every block of every page is at least MIN_SIZE wide and MIN_SIZE
\* high in every reachable state, whatever handle is dragged, alone or on a
\* group, with or without the aspect lock, wherever the pointer goes.
C11_MinSize ==
  \A i \in 1..Len(getGlobalBlocks(state)) :
    /\ getGlobalBlocks(state)[i].width >= MIN_SIZE
    /\ getGlobalBlocks(state)[i].height >= MIN_SIZE

\* the pointer went past the opposite edge: the handler proposed a negative
\* width, and the block is MIN_SIZE wide
C11_Witness ==
  /\ AfterResizeMove
  /\ ~ pointer.group
  /\ RESIZE_HANDLERS(pointer.handle, resizedBefore, pointer.x, pointer.y).width < 0
  /\ resizedAfter.width = MIN_SIZE

\* the bounding box of the selection at pointer-down, and the bounding box
\* the last pointer-move asked for: the handle's function on the pointer-down
\* bounding box, under the aspect lock when isShiftPressed
origBBox == Envelope(pointer.start)
newBBox ==
  LET proposed == RESIZE_HANDLERS(pointer.handle, origBBox, pointer.x, pointer.y)
  IN IF pointer.before.isShiftPressed
     THEN applyAspectRatioConstraint(proposed, origBBox, pointer.handle)
     ELSE proposed

\* newX = newBBoxX + ((origX - origBBoxX) / origBBoxWidth) * newBBoxWidth,
\* and the same for y, without the division
PlacedProportionally(orig, now) ==
  /\ (now.x - newBBox.x) * origBBox.width = (orig.x - origBBox.x) * newBBox.width
  /\ (now.y - newBBox.y) * origBBox.height = (orig.y - origBBox.y) * newBBox.height

\* newWidth = origWidth * (newBBoxWidth / origBBoxWidth), and the same for
\* the height, without the division
ScaledProportionally(orig, now) ==
  /\ now.width * origBBox.width = orig.width * newBBox.width
  /\ now.height * origBBox.height = orig.height * newBBox.height

\* the proportional size, or MIN_SIZE where the proportional size is smaller
ScaledDownToMinSize(orig, now) ==
  /\ IF orig.width * newBBox.width >= MIN_SIZE * origBBox.width
     THEN now.width * origBBox.width = orig.width * newBBox.width
     ELSE now.width = MIN_SIZE
  /\ IF orig.height * newBBox.height >= MIN_SIZE * origBBox.height
     THEN now.height * origBBox.height = orig.height * newBBox.height
     ELSE now.height = MIN_SIZE

\* C12 as stated: after a pointer-move of a group resize, at every pointer
\* position, every originally selected block has the position and the size
\* that are proportional to the new bounding box.
C12_Proportional ==
  (AfterResizeMove /\ pointer.group) =>
    \A i \in 1..Len(pointer.start) :
      LET now == FindById(getCurrentBlocks(state), pointer.start[i].id)
      IN /\ PlacedProportionally(pointer.start[i], now)
         /\ ScaledProportionally(pointer.start[i], now)

\* C12, amended: after a pointer-move of a group resize, at every pointer
\* position, every originally selected block has the proportional position,
\* and the proportional width and height wherever these are at least
\* MIN_SIZE; a proportional width or height below MIN_SIZE becomes MIN_SIZE.
C12_ProportionalDownToMinSize ==
  (AfterResizeMove /\ pointer.group) =>
    \A i \in 1..Len(pointer.start) :
      LET now == FindById(getCurrentBlocks(state), pointer.start[i].id)
      IN /\ PlacedProportionally(pointer.start[i], now)
         /\ ScaledDownToMinSize(pointer.start[i], now)

\* the group of {0,0,100,100} and {100,0,50,50} is scaled 2x by its se
\* handle: the blocks are {0,0,200,200} and {200,0,100,100}
C12_Witness ==
  /\ AfterResizeMove
  /\ pointer.group
  /\ pointer.handle = "se"
  /\ GeometryOf(pointer.start) = GeometryOf(groupBlocks)
  /\ newBBox.width = 2 * origBBox.width
  /\ newBBox.height = 2 * origBBox.height
  /\ GeometryOf(getCurrentBlocks(state))
       = <<[id |-> 1, x |-> 0, y |-> 0, width |-> 200, height |-> 200],
           [id |-> 2, x |-> 200, y |-> 0, width |-> 100, height |-> 100]>>

\* the rectangle the handle's function proposed at the last pointer-move of
\* a single-block resize, and the size of the block at pointer-down
proposedDimensions ==
  RESIZE_HANDLERS(pointer.handle, resizedBefore, pointer.x, pointer.y)
startWidth == getCurrentPage(state).resizing.startWidth
startHeight == getCurrentPage(state).resizing.startHeight

\* the areas of the two candidates are width^2 / r for the width-constrained
\* one, width x (width / r), and height^2 * r for the height-constrained one,
\* (height * r) x height, r = startWidth / startHeight; they compare as
\* their square roots multiplied by sqrt(startWidth * startHeight) do
widthAreaScaled == Abs(proposedDimensions.width) * startHeight
heightAreaScaled == Abs(proposedDimensions.height) * startWidth

\* now has the proposed width and the height width / r
IsWidthConstrained(now) ==
  /\ now.width = proposedDimensions.width
  /\ now.height * startWidth = proposedDimensions.width * startHeight

\* now has the proposed height and the width height * r
IsHeightConstrained(now) ==
  /\ now.height = proposedDimensions.height
  /\ now.width * startHeight = proposedDimensions.height * startWidth

\* the same two candidates with each side raised to MIN_SIZE
IsWidthConstrainedFloored(now) ==
  /\ now.width = Max(MIN_SIZE, proposedDimensions.width)
  /\ IF proposedDimensions.width * startHeight >= MIN_SIZE * startWidth
     THEN now.height * startWidth = proposedDimensions.width * startHeight
     ELSE now.height = MIN_SIZE

IsHeightConstrainedFloored(now) ==
  /\ now.height = Max(MIN_SIZE, proposedDimensions.height)
  /\ IF proposedDimensions.height * startWidth >= MIN_SIZE * startHeight
     THEN now.width * startHeight = proposedDimensions.height * startWidth
     ELSE now.width = MIN_SIZE

\* a pointer-move resized the single block by a corner handle under the
\* aspect lock
AfterLockedCornerMove ==
  /\ AfterResizeMove
  /\ ~ pointer.group
  /\ pointer.before.isShiftPressed
  /\ pointer.handle \in CornerHandles

startBlock == pointer.start[1]
resizedBlock == FindById(getCurrentBlocks(state), startBlock.id)

\* a single-block resize is going on and every pointer-move of it so far
\* found isShiftPressed = locked
ResizingSingle(locked) ==
  /\ pointer.down
  /\ ~ pointer.group
  /\ pointer.moves > 0
  /\ pointer.locks = {locked}
  /\ getCurrentPage(state).resizing # Null

SameRight == resizedBlock.x + resizedBlock.width = startBlock.x + startBlock.width
SameBottom == resizedBlock.y + resizedBlock.height = startBlock.y + startBlock.height
SameLeft == resizedBlock.x = startBlock.x
SameTop == resizedBlock.y = startBlock.y

\* C14: with the aspect lock, after every pointer-move of a corner-handle
\* resize, the corner opposite the handle is where it was at pointer-down:
\* bottom-right for nw, bottom-left for ne, top-right for sw, top-left for se.
C14_OppositeCornerFixed ==
  (ResizingSingle(TRUE) /\ pointer.handle \in CornerHandles) =>
    /\ pointer.handle = "nw" => SameRight /\ SameBottom
    /\ pointer.handle = "ne" => SameLeft /\ SameBottom
    /\ pointer.handle = "sw" => SameRight /\ SameTop
    /\ pointer.handle = "se" => SameLeft /\ SameTop

\* C15: in a single-block resize without the aspect lock, after every
\* pointer-move, the edges opposite the handle are where they were at
\* pointer-down (right edge for w, nw, sw; bottom edge for n, nw, ne; left
\* edge for e, ne, se; top edge for s, sw, se), and an edge handle leaves the
\* other dimension and its position as they were.
C15_OppositeEdgesFixed ==
  ResizingSingle(FALSE) =>
    /\ pointer.handle \in {"w", "nw", "sw"} => SameRight
    /\ pointer.handle \in {"n", "nw", "ne"} => SameBottom
    /\ pointer.handle \in {"e", "ne", "se"} => SameLeft
    /\ pointer.handle \in {"s", "sw", "se"} => SameTop
    /\ pointer.handle \in {"n", "s"} =>
         resizedBlock.width = startBlock.width /\ SameLeft
    /\ pointer.handle \in {"e", "w"} =>
         resizedBlock.height = startBlock.height /\ SameTop

\* the second pointer-move of an nw resize went past the right edge after
\* the first one had resized the block
C15_Witness ==
  /\ AfterResizeMove
  /\ ResizingSingle(FALSE)
  /\ pointer.moves = 2
  /\ pointer.handle = "nw"
  /\ geometry(resizedBefore) # geometry(startBlock)
  /\ proposedDimensions.width < 0
  /\ resizedBlock.width = MIN_SIZE

----------------------------------------------------------------------------
(* The wheel: panning and zooming, with the pointer moving, pages created
   and switched to, and the history *)

\* screen positions of the pointer over the viewport
WheelXs == {200, 400}
WheelYs == {300}

\* wheel events: a two-finger scroll, a mouse wheel notch, Ctrl + wheel in
\* and out (one step, and beyond either end of the range), a pinch
\* (ctrlKey, small deltaY), Cmd + wheel, and Cmd + two-finger scroll
WheelEvents ==
  {[deltaX |-> 30, deltaY |-> 10, ctrlKey |-> FALSE, metaKey |-> FALSE],
   [deltaX |-> 0, deltaY |-> 100, ctrlKey |-> FALSE, metaKey |-> FALSE],
   [deltaX |-> 0, deltaY |-> -100, ctrlKey |-> TRUE, metaKey |-> FALSE],
   [deltaX |-> 0, deltaY |-> 50, ctrlKey |-> TRUE, metaKey |-> FALSE],
   [deltaX |-> 0, deltaY |-> -400, ctrlKey |-> TRUE, metaKey |-> FALSE],
   [deltaX |-> 0, deltaY |-> 100, ctrlKey |-> TRUE, metaKey |-> FALSE],
   [deltaX |-> 0, deltaY |-> 10, ctrlKey |-> TRUE, metaKey |-> FALSE],
   [deltaX |-> 0, deltaY |-> -100, ctrlKey |-> FALSE, metaKey |-> TRUE],
   [deltaX |-> 30, deltaY |-> 10, ctrlKey |-> FALSE, metaKey |-> TRUE]}

\* where the pointer is on the screen (x, y), whether it is over the
\* viewport, and the last wheel event with the state it found
RestingPointer ==
  [x |-> 0, y |-> 0, over |-> TRUE, before |-> Null, event |-> Null]

WheelStep(next, event, nextPointer) ==
  /\ changes < MaxWheelEvents
  /\ WithinBounds(next)
  /\ state' = next
  /\ lastEvent' = event
  /\ pointer' = nextPointer
  /\ changes' = changes + 1
  /\ commit' = CommitOf(state, next)
  /\ UNCHANGED <<uuid, ipc>>

\* the pointer moves over the viewport: viewport.onpointermove with no
\* button pressed
WheelPointerMove ==
  \E clientX \in WheelXs, clientY \in WheelYs :
    /\ clientX # pointer.x \/ clientY # pointer.y \/ ~ pointer.over
    /\ WheelStep(onpointermove(state, PointerEvent(state, 0, clientX, clientY)),
                 "pointermove",
                 [RestingPointer EXCEPT !.x = clientX, !.y = clientY])

\* a wheel event over the viewport, where the pointer is
Wheel ==
  \E event \in WheelEvents :
    /\ pointer.over
    /\ WheelIsExact(state, event)
    /\ WheelStep(onwheel(state, event), "wheel",
                 [pointer EXCEPT !.before = state, !.event = event])

\* ClipboardMonitor pastes a block
WheelAddBlock ==
  /\ HasCurrentPage(state)
  /\ WheelStep(addBlock(state, Null, DefaultBlockSize, DefaultBlockSize),
               "addBlock", [pointer EXCEPT !.before = Null, !.event = Null])

WheelUndo ==
  /\ undoState(state) # state
  /\ WheelStep(KeyDown(state, "z", TRUE, FALSE), "key.undo",
               [pointer EXCEPT !.before = Null, !.event = Null])

WheelRedo ==
  /\ redoState(state) # state
  /\ WheelStep(KeyDown(state, "z", TRUE, TRUE), "key.redo",
               [pointer EXCEPT !.before = Null, !.event = Null])

\* a click on "+ New Page": the pointer is on the panel
WheelCreatePage ==
  /\ changes < MaxWheelEvents
  /\ LET next == createPage(state, uuid + 1, "new page")
     IN /\ WithinBounds(next)
        /\ state' = next
        /\ uuid' = uuid + 1
        /\ UNCHANGED ipc
        /\ lastEvent' = "createPage"
        /\ pointer' = [RestingPointer EXCEPT !.over = FALSE]
        /\ changes' = changes + 1
        /\ commit' = CommitOf(state, next)

\* a click on the label of another page: the pointer is on the panel
WheelSwitchPage ==
  \E i \in 1..Len(state.pages) :
    /\ state.pages[i].id # state.currentPageId
    /\ WheelStep(switchPage(state, state.pages[i].id), "switchPage",
                 [RestingPointer EXCEPT !.over = FALSE])

InitWheel ==
  /\ uuid = 1
  /\ ipc = NoIpc
  /\ state = initialState(1)
  /\ pointer = RestingPointer
  /\ lastEvent = "init"
  /\ changes = 0
  /\ commit = NoCommit

NextWheel ==
  \/ WheelPointerMove
  \/ Wheel
  \/ WheelAddBlock
  \/ WheelUndo
  \/ WheelRedo
  \/ WheelCreatePage
  \/ WheelSwitchPage

SpecWheel == InitWheel /\ [][NextWheel]_vars

\* the last event was a wheel event, which found the page pageBefore and
\* left the page pageAfter
AfterWheel == lastEvent = "wheel" /\ pointer.before # Null
pageBefore == getCurrentPage(pointer.before)
pageAfter == getCurrentPage(state)

\* clamp(zoom - deltaY * 0.01, 0.1, 5), in hundredths
ClampedZoom(zoom, deltaY) ==
  IF 10 * (zoom - deltaY) < ZoomScale THEN ZoomScale \div 10
  ELSE IF zoom - deltaY > 5 * ZoomScale THEN 5 * ZoomScale
  ELSE zoom - deltaY

\* the wheel event changed the zoom
Zoomed == AfterWheel /\ pageAfter.zoom # pageBefore.zoom

\* C16: the zoom of every page is within [0.1, 5] in every reachable state,
\* after wheel events, undo and redo, and a wheel event that zooms sets the
\* zoom to clamp(zoom - deltaY * 0.01, 0.1, 5).
C16_ZoomRange ==
  /\ \A i \in 1..Len(state.pages) :
       /\ 10 * state.pages[i].zoom >= ZoomScale
       /\ state.pages[i].zoom <= 5 * ZoomScale
  /\ Zoomed => pageAfter.zoom = ClampedZoom(pageBefore.zoom, pointer.event.deltaY)

\* after an undo, a wheel event that asks for more than 5 leaves the zoom at 5
C16_Witness ==
  /\ AfterWheel
  /\ pointer.before.mementoManager.redoStack # <<>>
  /\ pageBefore.zoom - pointer.event.deltaY > 5 * ZoomScale
  /\ pageAfter.zoom = 5 * ZoomScale

\* the wheel event took the zoom branch of onwheel
ZoomGesture ==
  /\ AfterWheel
  /\ ~ isTrackpad(pointer.event)
  /\ pointer.event.ctrlKey \/ pointer.event.metaKey

\* C17: a zoom wheel event leaves the canvas point under the pointer where
\* it was: with P = (pointer.x, pointer.y) the pointer's screen position,
\* (P - offset) / zoom is the same before and after the event, also for a
\* step clamped at 0.1 or 5 and for the first wheel event on another page.
C17_PointUnderPointerFixed ==
  ZoomGesture =>
    /\ (pointer.x - pageAfter.offsetX) * pageBefore.zoom
         = (pointer.x - pageBefore.offsetX) * pageAfter.zoom
    /\ (pointer.y - pageAfter.offsetY) * pageBefore.zoom
         = (pointer.y - pageBefore.offsetY) * pageAfter.zoom

\* C18: a wheel event with Ctrl or Cmd held is a zoom gesture, whatever its
\* deltaY: it sets the zoom to clamp(zoom - deltaY * 0.01, 0.1, 5) and does
\* not pan by the raw deltas; a wheel event with no modifier and
\* |deltaY| < 50 pans by (-deltaX, -deltaY) and leaves the zoom as it was.
C18_ModifierZooms ==
  AfterWheel =>
    LET event == pointer.event
        pannedByDeltas ==
          /\ pageAfter.offsetX = pageBefore.offsetX - event.deltaX
          /\ pageAfter.offsetY = pageBefore.offsetY - event.deltaY
    IN /\ (event.ctrlKey \/ event.metaKey) =>
            /\ pageAfter.zoom = ClampedZoom(pageBefore.zoom, event.deltaY)
            /\ (event.deltaX # 0 \/ event.deltaY # 0) => ~ pannedByDeltas
       /\ (~ event.ctrlKey /\ ~ event.metaKey /\ Abs(event.deltaY) < 50) =>
            /\ pannedByDeltas
            /\ pageAfter.zoom = pageBefore.zoom

----------------------------------------------------------------------------
(* Pointer-down: the left, the middle and the right button, on the empty
   canvas and on blocks, with and without a selection *)

\* event.button: 0 left, 1 middle, 2 right
PressButtons == {0, 1, 2}

\* the record of the last pointer-down: the event and the state it found
NoPress == [down |-> FALSE, target |-> "none", event |-> Null, before |-> Null]

Pressed(s, target, event) ==
  [down |-> TRUE, target |-> target, event |-> event, before |-> s]

PressStep(next, event, nextPointer) ==
  /\ changes < MaxPressEvents
  /\ state' = next
  /\ lastEvent' = event
  /\ pointer' = nextPointer
  /\ changes' = changes + 1
  /\ commit' = CommitOf(state, next)
  /\ UNCHANGED <<uuid, ipc>>

\* pointerdown where no block is: viewport.onpointerdown
PressViewport ==
  \E button \in PressButtons, clientX \in PointerXs, clientY \in PointerYs :
    LET event == PointerEvent(state, button, clientX, clientY)
    IN /\ ~ pointer.down
       /\ \A i \in 1..Len(getCurrentBlocks(state)) :
            ~ Contains(getCurrentBlocks(state)[i], CanvasX(state, clientX),
                       CanvasY(state, clientY))
       /\ PressStep(onpointerdown(state, event), "viewport.pointerdown",
                    Pressed(state, "viewport", event))

\* pointerdown on the topmost block at the point: block.onpointerdown, and
\* viewport.onpointerdown after it when the propagation was not stopped
PressBlock ==
  \E button \in PressButtons, clientX \in PointerXs, clientY \in PointerYs :
    \E i \in 1..Len(getCurrentBlocks(state)) :
      LET event == PointerEvent(state, button, clientX, clientY)
          s1 == block_onpointerdown(state, getCurrentBlocks(state)[i],
                                    event.shiftKey)
      IN /\ ~ pointer.down
         /\ TopmostAt(getCurrentBlocks(state), i, CanvasX(state, clientX),
                      CanvasY(state, clientY))
         /\ PressStep(IF isMultiSelect(state) THEN onpointerdown(s1, event) ELSE s1,
                      "block.pointerdown", Pressed(state, "block", event))

\* pointermove with the pointer pressed; dx * ZoomScale and dy * ZoomScale
\* divide by the zoom for every point of the grid at the zooms of InitPress
PressPointerMove ==
  \E clientX \in PointerXs, clientY \in PointerYs :
    LET event == PointerEvent(state, 0, clientX, clientY)
    IN /\ pointer.down
       /\ PressStep(onpointermove(state, event), "pointermove",
                    [pointer EXCEPT !.event = event, !.before = state])

PressPointerUp ==
  /\ pointer.down
  /\ PressStep(onpointerup(state), "pointerup", NoPress)

\* the second click of a double click on a block: block.ondblclick
PressDblClick ==
  \E i \in 1..Len(getCurrentBlocks(state)) :
    /\ ~ pointer.down
    /\ lastEvent = "pointerup"
    /\ PressStep(block_ondblclick(state, getCurrentBlocks(state)[i]),
                 "block.dblclick", NoPress)

\* keydown of Delete or Backspace
PressDelete ==
  \E key \in {"Delete", "Backspace"} :
    PressStep(KeyDown(state, key, FALSE, state.isShiftPressed), "key.Delete",
              [pointer EXCEPT !.event = [key |-> key], !.before = state])

PressShiftDown ==
  /\ ~ state.isShiftPressed
  /\ PressStep(KeyDown(state, "Shift", FALSE, TRUE), "key.Shift",
               [pointer EXCEPT !.event = Null, !.before = Null])

PressShiftUp ==
  /\ state.isShiftPressed
  /\ PressStep(KeyUp(state, "Shift"), "keyup.Shift",
               [pointer EXCEPT !.event = Null, !.before = Null])

\* a second page with a block of its own, created after the first one
withSecondPage(s) ==
  [s EXCEPT !.pages =
     Append(@, [defaultPage(2) EXCEPT
                  !.blocks = <<[id |-> 3, width |-> DefaultBlockSize,
                                height |-> DefaultBlockSize,
                                x |-> 0, y |-> 200, zIndex |-> 3]>>,
                  !.selectedIds = <<3>>,
                  !.cursorStyle = "default"])]

\* the page as earlier wheel events (a zoom and a scroll) left it
zoomedState(s, zoom, offsetY) ==
  updateCurrentPage(s, [zoom |-> zoom, offsetY |-> offsetY])

InitPress ==
  /\ uuid = 1
  /\ ipc = NoIpc
  /\ state \in {loadedState(1, 1, <<>>), loadedState(1, 2, <<>>),
                loadedState(1, 2, <<2>>), loadedState(1, 2, <<1, 2>>),
                zoomedState(loadedState(1, 2, <<1, 2>>), 2 * ZoomScale, -300),
                withSecondPage(loadedState(1, 2, <<2>>))}
  /\ pointer = NoPress
  /\ lastEvent = "init"
  /\ changes = 0
  /\ commit = NoCommit

NextPress ==
  \/ PressViewport
  \/ PressBlock
  \/ PressPointerMove
  \/ PressPointerUp
  \/ PressDblClick
  \/ PressDelete
  \/ PressShiftDown
  \/ PressShiftUp

SpecPress == InitPress /\ [][NextPress]_vars

\* the last event was a pointer-down
AfterPress ==
  /\ lastEvent \in {"viewport.pointerdown", "block.pointerdown"}
  /\ pointer.event # Null

\* C19: every middle-button pointer-down, on the empty canvas or on a block,
\* leaves the page panning (isViewportDragging), with no selected block and
\* no drag started (dragStart null).
C19_MiddleButtonPans ==
  (AfterPress /\ pointer.event.button = 1) =>
    /\ getCurrentPage(state).isViewportDragging
    /\ getCurrentPage(state).selectedIds = <<>>
    /\ getCurrentPage(state).dragStart = Null

\* the pointer-down found two or more selected blocks, Shift not held, and
\* landed inside their bounding box
PressedInSelectionBounds ==
  /\ AfterPress
  /\ ~ pointer.event.shiftKey
  /\ Len(getSelectedBlocks(pointer.before)) >= 2
  /\ isPointInSelectionBounds(pointer.before,
                              CanvasX(pointer.before, pointer.event.clientX),
                              CanvasY(pointer.before, pointer.event.clientY))

\* dragStart holds the id and the x, y of one of the selected blocks
DragStartOfSelectedBlock ==
  /\ getCurrentPage(state).dragStart # Null
  /\ \E i \in 1..Len(getSelectedBlocks(pointer.before)) :
       LET b == getSelectedBlocks(pointer.before)[i]
       IN getCurrentPage(state).dragStart
            = [id |-> b.id, startX |-> b.x, startY |-> b.y]

\* C20: a left-button pointer-down without Shift inside the bounding box of
\* a selection of two or more blocks starts a drag (dragStart holds the id,
\* x and y of one selected block, selectedIds as before, no selectionBox
\* created), and a pointer-down of another button there starts none.
C20_LeftButtonStartsDrag ==
  PressedInSelectionBounds =>
    /\ pointer.event.button = 0 =>
         /\ DragStartOfSelectedBlock
         /\ getCurrentPage(state).selectedIds
              = getCurrentPage(pointer.before).selectedIds
         /\ getCurrentPage(state).selectionBox
              = getCurrentPage(pointer.before).selectionBox
    /\ pointer.event.button # 0 =>
         getCurrentPage(state).dragStart = getCurrentPage(pointer.before).dragStart


----------------------------------------------------------------------------
(* Marquee start *)

\* the pointer-down was handled by viewport.onpointerdown: it landed where no
\* block is, or on a block whose handler did not stop the propagation
ReachedViewport ==
  /\ AfterPress
  /\ \/ lastEvent = "viewport.pointerdown"
     \/ isMultiSelect(pointer.before)

\* the pointer-down of the left button reached the viewport outside the
\* bounding box of a multi-selection
LeftPressOutsideSelectionBounds ==
  /\ ReachedViewport
  /\ pointer.event.button = 0
  /\ ~ isPointInSelectionBounds(pointer.before,
                                CanvasX(pointer.before, pointer.event.clientX),
                                CanvasY(pointer.before, pointer.event.clientY))

\* C21: a left-button pointer-down that reaches the viewport outside any
\* multi-selection bounding box creates selectionBox at the pointer's canvas
\* position with zero extent, empties previewSelectedIds, sets editingId to
\* null, and keeps selectedIds when Shift is held and empties it otherwise.
C21_MarqueeStart ==
  LeftPressOutsideSelectionBounds =>
    LET canvasX == CanvasX(pointer.before, pointer.event.clientX)
        canvasY == CanvasY(pointer.before, pointer.event.clientY)
        page == getCurrentPage(state)
    IN /\ page.selectionBox = [startX |-> canvasX, startY |-> canvasY,
                               currentX |-> canvasX, currentY |-> canvasY]
       /\ page.previewSelectedIds = <<>>
       /\ page.editingId = NoId
       /\ page.selectedIds = IF pointer.event.shiftKey
                             THEN getCurrentPage(pointer.before).selectedIds
                             ELSE <<>>

\* a Shift + left press on the empty canvas while a block was being edited:
\* the marquee starts, the edit mode ends and the selection is kept
C21_Witness ==
  /\ LeftPressOutsideSelectionBounds
  /\ pointer.event.shiftKey
  /\ getCurrentPage(pointer.before).editingId # NoId
  /\ getCurrentPage(state).selectedIds # <<>>
  /\ getCurrentPage(state).selectionBox # Null

\* a left press without Shift outside the bounding box of two selected
\* blocks: the marquee starts with an empty selection
C21_WitnessReplacing ==
  /\ LeftPressOutsideSelectionBounds
  /\ ~ pointer.event.shiftKey
  /\ Len(getCurrentPage(pointer.before).selectedIds) = 2
  /\ getCurrentPage(state).selectedIds = <<>>


----------------------------------------------------------------------------
(* Dragging *)

\* the last event was a pointer-move that found the page dragging
MovedWhileDragging ==
  /\ lastEvent = "pointermove"
  /\ pointer.event # Null
  /\ getCurrentPage(pointer.before).dragStart # Null

\* C22: a pointer-move while Dragging adds (dx / zoom, dy / zoom) to the x, y
\* of every block whose id is in selectedIds, dx and dy being the distance of
\* the pointer from the last recorded mouse position, and leaves the
\* unselected blocks, every width and height, the viewport offset and the
\* zoom unchanged.
C22_DragTranslatesSelection ==
  MovedWhileDragging =>
    LET before == getCurrentPage(pointer.before)
        after == getCurrentPage(state)
        dx == pointer.event.clientX - before.mouseX
        dy == pointer.event.clientY - before.mouseY
    IN /\ Len(after.blocks) = Len(before.blocks)
       /\ \A i \in 1..Len(before.blocks) :
            LET b == before.blocks[i]
                a == after.blocks[i]
            IN IF Includes(before.selectedIds, b.id)
               THEN /\ (a.x - b.x) * before.zoom = dx * ZoomScale
                    /\ (a.y - b.y) * before.zoom = dy * ZoomScale
                    /\ a = [b EXCEPT !.x = a.x, !.y = a.y]
               ELSE a = b
       /\ after.offsetX = before.offsetX
       /\ after.offsetY = before.offsetY
       /\ after.zoom = before.zoom

\* two selected blocks were dragged at zoom 2: both moved by half the
\* distance of the pointer and are as far from each other as before
C22_Witness ==
  /\ MovedWhileDragging
  /\ getCurrentPage(pointer.before).zoom = 2 * ZoomScale
  /\ Len(getCurrentPage(pointer.before).selectedIds) = 2
  /\ getCurrentPage(state).blocks[1].x # getCurrentPage(pointer.before).blocks[1].x
  /\ getCurrentPage(state).blocks[1].x - getCurrentPage(state).blocks[2].x
       = getCurrentPage(pointer.before).blocks[1].x
           - getCurrentPage(pointer.before).blocks[2].x

\* one of two blocks was dragged: the other one stayed
C22_WitnessUnselected ==
  /\ MovedWhileDragging
  /\ Len(getCurrentPage(pointer.before).blocks) = 2
  /\ Len(getCurrentPage(pointer.before).selectedIds) = 1
  /\ getCurrentPage(state).blocks # getCurrentPage(pointer.before).blocks


----------------------------------------------------------------------------
(* Pointer-up *)

\* no gesture is active on the page
Idle(page) ==
  /\ page.resizing = Null
  /\ page.dragStart = Null
  /\ page.selectionBox = Null
  /\ ~ page.isViewportDragging
  /\ page.previewSelectedIds = <<>>
  /\ page.cursorStyle = "default"

\* C23: after every pointer-up, whatever gesture was active, the current page
\* is Idle: resizing, dragStart and selectionBox are null, isViewportDragging
\* is false, previewSelectedIds is empty and cursorStyle is "default".
C23_PointerUpIsIdle ==
  lastEvent = "pointerup" => Idle(getCurrentPage(state))

\* a drag that moved a block was released: one memento was pushed and the
\* page is idle
C23_Witness ==
  /\ lastEvent = "pointerup"
  /\ pointer.completed = "drag"
  /\ pointer.moved
  /\ pointer.pushed = 1
  /\ Idle(getCurrentPage(state))

\* a marquee over a block was released
C23_WitnessMarquee ==
  /\ lastEvent = "pointerup"
  /\ pointer.target = "viewport"
  /\ pointer.moves > 0
  /\ getCurrentPage(state).selectedIds # <<>>
  /\ Idle(getCurrentPage(state))

\* C24: on every page, previewSelectedIds is non-empty only when selectionBox
\* is non-null, and after a pointer-up the current page has selectionBox null
\* and previewSelectedIds empty.
C24_PreviewOnlyInMarquee ==
  /\ \A i \in 1..Len(state.pages) :
       state.pages[i].previewSelectedIds # <<>> => state.pages[i].selectionBox # Null
  /\ lastEvent = "pointerup" =>
       /\ getCurrentPage(state).selectionBox = Null
       /\ getCurrentPage(state).previewSelectedIds = <<>>

\* an undo put back a page that was saved during a marquee over a block: the
\* preview and the selectionBox came back together
C24_Witness ==
  /\ lastEvent = "key.undo"
  /\ ~ pointer.down
  /\ getCurrentPage(state).previewSelectedIds # <<>>
  /\ getCurrentPage(state).selectionBox # Null

\* C25: when pointer-up ends a marquee, the new selectedIds is the
\* previewSelectedIds the page held just before the pointer-up, and
\* previewSelectedIds is then empty.
C25_PreviewIsCommitted ==
  [][(lastEvent' = "pointerup" /\ getCurrentPage(state).selectionBox # Null) =>
       /\ getCurrentPage(state').selectedIds
            = getCurrentPage(state).previewSelectedIds
       /\ getCurrentPage(state').previewSelectedIds = <<>>]_vars


----------------------------------------------------------------------------
(* The marquee preview: calculatePreviewSelection over a grid of marquees *)

\* the corners of the marquee; block 1 spans 10..30 and block 2 spans 40..60
\* in x, both span 10..30 in y
MarqueeXs == {0, 5, 10, 20, 30, 35, 40}
MarqueeYs == {0, 10, 20, 30, 35}

\* a page with two blocks, some of them selected, Shift held or not
marqueeState(selectedIds, isShiftPressed) ==
  [initialState(1) EXCEPT
     !.pages = <<[defaultPage(1) EXCEPT
                    !.blocks = <<[id |-> 1, width |-> 20, height |-> 20,
                                  x |-> 10, y |-> 10, zIndex |-> 1],
                                 [id |-> 2, width |-> 20, height |-> 20,
                                  x |-> 40, y |-> 10, zIndex |-> 2]>>,
                    !.selectedIds = selectedIds]>>,
     !.isShiftPressed = isShiftPressed]

\* the record of the last call: the selectionBox passed and the ids returned
NoMarquee == [selectionBox |-> Null, previewSelectedIds |-> <<>>]

\* calculatePreviewSelection(state, selectionBox), as handleSelectionBoxMove
\* and handleSelectionBoxComplete call it
MarqueeCalculate ==
  \E startX \in MarqueeXs, currentX \in MarqueeXs,
     startY \in MarqueeYs, currentY \in MarqueeYs :
    LET selectionBox == [startX |-> startX, startY |-> startY,
                         currentX |-> currentX, currentY |-> currentY]
    IN /\ pointer' = [selectionBox |-> selectionBox,
                      previewSelectedIds |->
                        calculatePreviewSelection(state, selectionBox)]
       /\ lastEvent' = "calculatePreviewSelection"
       /\ UNCHANGED <<state, uuid, changes, commit, ipc>>

InitMarquee ==
  /\ uuid = 1
  /\ ipc = NoIpc
  /\ \E selectedIds \in {<<>>, <<1>>, <<2>>, <<1, 2>>, <<2, 1>>},
        isShiftPressed \in BOOLEAN :
       state = marqueeState(selectedIds, isShiftPressed)
  /\ pointer = NoMarquee
  /\ lastEvent = "init"
  /\ changes = 0
  /\ commit = NoCommit

NextMarquee == MarqueeCalculate

SpecMarquee == InitMarquee /\ [][NextMarquee]_vars

\* the marquee rectangle, normalised from the start and the current corner
marqueeLeft == Min(pointer.selectionBox.startX, pointer.selectionBox.currentX)
marqueeRight == Max(pointer.selectionBox.startX, pointer.selectionBox.currentX)
marqueeTop == Min(pointer.selectionBox.startY, pointer.selectionBox.currentY)
marqueeBottom == Max(pointer.selectionBox.startY, pointer.selectionBox.currentY)

\* the two closed rectangles have a point in common
Overlaps(b) ==
  /\ Max(b.x, marqueeLeft) <= Min(b.x + b.width, marqueeRight)
  /\ Max(b.y, marqueeTop) <= Min(b.y + b.height, marqueeBottom)

\* the rectangles are apart: a gap separates them on one axis
StrictlyDisjoint(b) ==
  \/ b.x + b.width < marqueeLeft \/ marqueeRight < b.x
  \/ b.y + b.height < marqueeTop \/ marqueeBottom < b.y

OverlappingIds ==
  {getCurrentBlocks(state)[i].id : i \in
     {j \in 1..Len(getCurrentBlocks(state)) : Overlaps(getCurrentBlocks(state)[j])}}

IdsOf(ids) == {ids[i] : i \in 1..Len(ids)}

\* C26: the marquee preview holds a block exactly when the block's rectangle
\* and the normalised marquee rectangle overlap, touching edges and corners
\* counting as overlap and a strictly disjoint block never being included;
\* with Shift held the preview is the union of that set and selectedIds; no
\* id is listed twice.
C26_PreviewIsOverlap ==
  pointer.selectionBox # Null =>
    LET preview == pointer.previewSelectedIds
        selectedIds == getCurrentPage(state).selectedIds
    IN /\ IdsOf(preview) = IF state.isShiftPressed
                           THEN IdsOf(selectedIds) \cup OverlappingIds
                           ELSE OverlappingIds
       /\ Cardinality(IdsOf(preview)) = Len(preview)
       /\ \A i \in 1..Len(getCurrentBlocks(state)) :
            LET b == getCurrentBlocks(state)[i]
            IN (/\ StrictlyDisjoint(b)
                /\ ~ (state.isShiftPressed /\ Includes(selectedIds, b.id)))
                 => ~ Includes(preview, b.id)

\* a marquee drawn from right to left and from bottom to top whose corner
\* meets the corner of block 2 and no other point of it: the preview holds
\* block 2 alone
C26_Witness ==
  /\ pointer.selectionBox # Null
  /\ ~ state.isShiftPressed
  /\ pointer.selectionBox.startX > pointer.selectionBox.currentX
  /\ pointer.selectionBox.startY > pointer.selectionBox.currentY
  /\ marqueeLeft = 35
  /\ marqueeRight = 40
  /\ marqueeBottom = 10
  /\ pointer.previewSelectedIds = <<2>>

\* an additive marquee over block 1 while blocks 2 and 1 are selected: the
\* preview is the selection, block 1 listed once
C26_WitnessAdditive ==
  /\ pointer.selectionBox # Null
  /\ state.isShiftPressed
  /\ getCurrentPage(state).selectedIds = <<2, 1>>
  /\ OverlappingIds = {1}
  /\ pointer.previewSelectedIds = <<2, 1>>


----------------------------------------------------------------------------
(* Edit mode *)

\* the page is in edit mode and nothing but the edited block is selected
OnlyEditedSelected(page) ==
  page.editingId # NoId =>
    /\ Len(page.selectedIds) <= 1
    /\ \A i \in 1..Len(page.selectedIds) : page.selectedIds[i] = page.editingId

\* the step, other than a double click (which moves the edit mode to the
\* block it selects), leaves a block selected on the current page that is
\* not the one the page was editing
SelectsOtherThanEdited ==
  /\ lastEvent' # "block.dblclick"
  /\ HasCurrentPage(state)
  /\ getCurrentPage(state).editingId # NoId
  /\ state'.currentPageId = state.currentPageId
  /\ HasCurrentPage(state')
  /\ \E i \in 1..Len(getCurrentPage(state').selectedIds) :
       getCurrentPage(state').selectedIds[i] # getCurrentPage(state).editingId

----------------------------------------------------------------------------
(* Shift + press on a block *)

\* the id of the block the last pointer-down landed on
pressedBlockId ==
  LET blocks == getCurrentBlocks(pointer.before)
      i == CHOOSE j \in 1..Len(blocks) :
             TopmostAt(blocks, j, CanvasX(pointer.before, pointer.event.clientX),
                       CanvasY(pointer.before, pointer.event.clientY))
  IN blocks[i].id

\* a pointer-down with Shift on a block of a page that is neither in edit
\* mode nor in interact mode
ShiftPressOnBlock ==
  /\ AfterPress
  /\ lastEvent = "block.pointerdown"
  /\ pointer.event.shiftKey
  /\ getCurrentPage(pointer.before).editingId = NoId
  /\ ~ getCurrentPage(pointer.before).isInteractMode

\* C28: a Shift + pointer-down on a block, outside edit and interact mode,
\* toggles the block's membership in selectedIds (added if absent, removed if
\* present, every other member kept) and starts no drag and no marquee,
\* however many blocks are selected.
C28_ShiftPressToggles ==
  ShiftPressOnBlock =>
    LET before == getCurrentPage(pointer.before)
        after == getCurrentPage(state)
    IN /\ IdsOf(after.selectedIds)
            = IF Includes(before.selectedIds, pressedBlockId)
              THEN IdsOf(before.selectedIds) \ {pressedBlockId}
              ELSE IdsOf(before.selectedIds) \cup {pressedBlockId}
       /\ after.dragStart = before.dragStart
       /\ after.selectionBox = before.selectionBox


----------------------------------------------------------------------------
(* Delete and Backspace *)

AfterDelete == lastEvent = "key.Delete" /\ pointer.event # Null

\* the blocks of the page that are not selected, in the order of the page
UnselectedBlocks(page) ==
  LET unselected(i) == \A j \in 1..Len(page.selectedIds) :
                         page.selectedIds[j] # page.blocks[i].id
      RECURSIVE upTo(_)
      upTo(n) == IF n = 0 THEN <<>>
                 ELSE IF unselected(n) THEN Append(upTo(n - 1), page.blocks[n])
                 ELSE upTo(n - 1)
  IN upTo(Len(page.blocks))

\* C29: Delete or Backspace with editingId null and a non-empty selectedIds
\* removes exactly the selected blocks from the current page, leaves every
\* other block and every other page unchanged, empties selectedIds and
\* pushes one memento holding the state before the deletion; with editingId
\* non-null or nothing selected the state is unchanged.
C29_DeleteRemovesSelection ==
  AfterDelete =>
    LET before == getCurrentPage(pointer.before)
        after == getCurrentPage(state)
    IN IF before.editingId = NoId /\ before.selectedIds # <<>>
       THEN /\ after = [before EXCEPT !.blocks = UnselectedBlocks(before),
                                      !.selectedIds = <<>>]
            /\ Len(state.pages) = Len(pointer.before.pages)
            /\ \A i \in 1..Len(state.pages) :
                 pointer.before.pages[i].id # pointer.before.currentPageId
                   => state.pages[i] = pointer.before.pages[i]
            /\ state.currentPageId = pointer.before.currentPageId
            /\ state.mementoManager.undoStack
                 = Append(pointer.before.mementoManager.undoStack,
                          createMemento(pointer.before))
       ELSE state = pointer.before

\* Backspace with one of two blocks selected and a second page: the selected
\* block is gone, the other one and the other page stay, one memento more
C29_Witness ==
  /\ AfterDelete
  /\ pointer.event.key = "Backspace"
  /\ Len(pointer.before.pages) = 2
  /\ Len(getCurrentPage(pointer.before).blocks) = 2
  /\ Len(getCurrentPage(state).blocks) = 1
  /\ Len(state.mementoManager.undoStack)
       = Len(pointer.before.mementoManager.undoStack) + 1

\* Delete in edit mode with the edited block selected: nothing happens
C29_WitnessEditing ==
  /\ AfterDelete
  /\ getCurrentPage(pointer.before).editingId # NoId
  /\ getCurrentPage(pointer.before).selectedIds # <<>>
  /\ state = pointer.before


----------------------------------------------------------------------------
(* The paint order: sendToFront and sendToBack over pages and block ids *)

\* the blockId passed: blocks 1 and 2 are on the first page, block 3 is on
\* the second page or nowhere
OrderIds == {1, 2, 3}

\* the record of the last call: the function, the blockId and the state passed
NoOrder == [op |-> "none", blockId |-> NoId, before |-> Null]

OrderStep(next, op, blockId) ==
  /\ changes < MaxOrderEvents
  /\ state' = next
  /\ lastEvent' = op
  /\ pointer' = [op |-> op, blockId |-> blockId, before |-> state]
  /\ changes' = changes + 1
  /\ commit' = CommitOf(state, next)
  /\ UNCHANGED <<uuid, ipc>>

OrderSendToFront ==
  \E blockId \in OrderIds :
    OrderStep(sendToFront(state, blockId), "sendToFront", blockId)

OrderSendToBack ==
  \E blockId \in OrderIds :
    OrderStep(sendToBack(state, blockId), "sendToBack", blockId)

\* ClipboardMonitor: addBlock in the centre of the viewport
OrderAddBlock ==
  OrderStep(addBlock(state, Null, DefaultBlockSize, DefaultBlockSize),
            "addBlock", NoId)

InitOrder ==
  /\ uuid = 1
  /\ ipc = NoIpc
  /\ state \in {loadedState(1, 1, <<1>>), loadedState(1, 2, <<>>),
                withSecondPage(loadedState(1, 2, <<2>>))}
  /\ pointer = NoOrder
  /\ lastEvent = "init"
  /\ changes = 0
  /\ commit = NoCommit

NextOrder ==
  \/ OrderSendToFront
  \/ OrderSendToBack
  \/ OrderAddBlock

SpecOrder == InitOrder /\ [][NextOrder]_vars

\* the zIndex values of the blocks of the page
ZIndexes(page) == {page.blocks[i].zIndex : i \in 1..Len(page.blocks)}

Highest(zs) == CHOOSE z \in zs : \A other \in zs : other <= z
Lowest(zs) == CHOOSE z \in zs : \A other \in zs : z <= other

\* the call was given the id of a block of the current page
OrderedBlockOnPage ==
  /\ pointer.op \in {"sendToFront", "sendToBack"}
  /\ \E i \in 1..Len(getCurrentBlocks(pointer.before)) :
       getCurrentBlocks(pointer.before)[i].id = pointer.blockId

\* C30: sendToFront(b) gives b the highest zIndex of the page before the call
\* plus one, above every other block; sendToBack(b) gives it the lowest minus
\* one, below every other block; every other block, every other field of
\* the page and every other page stay, and one memento of the state before
\* is pushed. For a blockId that is not on the current page the state, the
\* undoStack included, is unchanged.
C30_SendToFrontAndBack ==
  pointer.op \in {"sendToFront", "sendToBack"} =>
    IF OrderedBlockOnPage
    THEN LET before == getCurrentPage(pointer.before)
             after == getCurrentPage(state)
             zIndex == IF pointer.op = "sendToFront"
                       THEN Highest(ZIndexes(before)) + 1
                       ELSE Lowest(ZIndexes(before)) - 1
         IN /\ after = [before EXCEPT !.blocks =
                          [i \in 1..Len(before.blocks) |->
                             IF before.blocks[i].id = pointer.blockId
                             THEN [before.blocks[i] EXCEPT !.zIndex = zIndex]
                             ELSE before.blocks[i]]]
            /\ \A i \in 1..Len(after.blocks) :
                 after.blocks[i].id # pointer.blockId =>
                   IF pointer.op = "sendToFront"
                   THEN after.blocks[i].zIndex < zIndex
                   ELSE after.blocks[i].zIndex > zIndex
            /\ [state EXCEPT !.mementoManager = pointer.before.mementoManager]
                 = updateCurrentPage(pointer.before, [blocks |-> after.blocks])
            /\ state.mementoManager.undoStack
                 = Append(pointer.before.mementoManager.undoStack,
                          createMemento(pointer.before))
    ELSE state = pointer.before

\* the lower of two blocks was sent to the front, after an earlier call had
\* pushed a memento
C30_Witness ==
  /\ pointer.op = "sendToFront"
  /\ OrderedBlockOnPage
  /\ Len(getCurrentBlocks(state)) = 2
  /\ Len(pointer.before.mementoManager.undoStack) = 1
  /\ Len(state.mementoManager.undoStack) = 2
  /\ \E i \in 1..2 :
       /\ getCurrentBlocks(pointer.before)[i].id = pointer.blockId
       /\ getCurrentBlocks(pointer.before)[i].zIndex
            < Highest(ZIndexes(getCurrentPage(pointer.before)))

\* sendToBack was called with the id of a block of the other page
C30_WitnessOtherPage ==
  /\ pointer.op = "sendToBack"
  /\ pointer.blockId = 3
  /\ Len(state.pages) = 2
  /\ state = pointer.before
  /\ Len(state.mementoManager.undoStack) = 1


----------------------------------------------------------------------------
(* addBlock: the id and the zIndex of the new block *)

\* the last call was addBlock and appended a block to the current page
AfterAddBlock ==
  /\ pointer.op = "addBlock"
  /\ Len(getCurrentBlocks(state)) = Len(getCurrentBlocks(pointer.before)) + 1

\* the block addBlock appended
addedBlock == getCurrentBlocks(state)[Len(getCurrentBlocks(state))]

\* the ids and the zIndex values of the blocks of all pages before the call
GlobalIdsBefore ==
  {getGlobalBlocks(pointer.before)[i].id : i \in 1..Len(getGlobalBlocks(pointer.before))}
GlobalZIndexesBefore ==
  {getGlobalBlocks(pointer.before)[i].zIndex :
     i \in 1..Len(getGlobalBlocks(pointer.before))}

\* the new id is the highest id of all pages plus one and that of no block
\* that existed
AddedIdIsFresh ==
  /\ addedBlock.id = Highest(GlobalIdsBefore) + 1
  /\ addedBlock.id \notin GlobalIdsBefore

\* the new block is painted above every block that was on its page
AddedOnTop ==
  \A z \in ZIndexes(getCurrentPage(pointer.before)) : z < addedBlock.zIndex

\* C31: addBlock gives the new block the id (maximum id over the blocks of
\* all pages) + 1, the id of no existing block, and the zIndex (current
\* maximum zIndex) + 1, above every block already on its page, also after
\* sendToBack has produced negative zIndex values.
C31_AddBlockIdAndZIndex ==
  AfterAddBlock =>
    /\ AddedIdIsFresh
    /\ addedBlock.zIndex = Highest(GlobalZIndexesBefore) + 1
    /\ AddedOnTop

\* the id and the painting order alone
C31_FreshIdOnTop ==
  AfterAddBlock => (AddedIdIsFresh /\ AddedOnTop)

----------------------------------------------------------------------------
(* Resizing a block that was deleted after the pointer-down on its handle:
   the Delete key is handled while the pointer is held *)

MaxGoneEvents == 4

\* canvas coordinates of the pointer-moves
GoneXs == {-30, 90, 140}
GoneYs == {-40, 40, 90}

\* the blocks of groupBlocks selected, next to a third block that is not
withBystander(s) ==
  updateCurrentPage(s,
    [blocks |-> Append(getCurrentBlocks(s),
                       [id |-> 3, x |-> 200, y |-> 0, width |-> 40,
                        height |-> 40, zIndex |-> 3])])

\* the target of the resize is not on the page: the resized block, or a
\* block of the resized group
TargetGone(s) ==
  LET page == getCurrentPage(s)
  IN /\ page.resizing # Null
     /\ IF page.resizing.id = SelectionBoundingBoxId
          THEN \E i \in 1..Len(page.resizing.originalBlocks) :
                 FindById(page.blocks, page.resizing.originalBlocks[i].id) = Null
          ELSE FindById(page.blocks, page.resizing.id) = Null

GoneStep(next, event, nextDown) ==
  /\ changes < MaxGoneEvents
  /\ state' = next
  /\ lastEvent' = event
  /\ pointer' = [pointer EXCEPT !.down = nextDown, !.before = state]
  /\ changes' = changes + 1
  /\ commit' = CommitOf(state, next)
  /\ UNCHANGED <<uuid, ipc>>

GoneBlockHandleDown ==
  \E handle \in Handles :
    /\ ~ pointer.down
    /\ ~ isMultiSelect(state)
    /\ hasSelection(state)
    /\ GoneStep(blockHandle_onpointerdown(state, getFirstSelectedBlockId(state),
                                          handle),
                "handle.pointerdown", TRUE)

GoneMultiHandleDown ==
  \E handle \in Handles :
    /\ ~ pointer.down
    /\ isMultiSelect(state)
    /\ GoneStep(multiHandle_onpointerdown(state, handle),
                "multihandle.pointerdown", TRUE)

\* the Delete key, with or without a handle held
GoneDelete ==
  GoneStep(KeyDown(state, "Delete", FALSE, state.isShiftPressed), "key.Delete",
           pointer.down)

GonePointerMove ==
  \E x \in GoneXs, y \in GoneYs :
    LET clientX == x + getCurrentViewport(state).offsetX
        clientY == y + getCurrentViewport(state).offsetY
    IN /\ pointer.down
       /\ ResizeIsExact(state, clientX, clientY)
       /\ GoneStep(onpointermove(state, PointerEvent(state, 0, clientX, clientY)),
                   "pointermove", TRUE)

GonePointerUp ==
  /\ pointer.down
  /\ GoneStep(onpointerup(state), "pointerup", FALSE)

InitGone ==
  /\ uuid = 1
  /\ ipc = NoIpc
  /\ \E isShiftPressed \in BOOLEAN :
       state \in {resizeState(singleBlock, isShiftPressed),
                  withBystander(resizeState(groupBlocks, isShiftPressed))}
  /\ pointer = IdleResize
  /\ lastEvent = "init"
  /\ changes = 0
  /\ commit = NoCommit

NextGone ==
  \/ GoneBlockHandleDown
  \/ GoneMultiHandleDown
  \/ GoneDelete
  \/ GonePointerMove
  \/ GonePointerUp

SpecGone == InitGone /\ [][NextGone]_vars

\* C32: a pointer-move during a resize whose target block was deleted after
\* the pointer-down changes no block, re-creates none and pushes no memento
\* (for a group the blocks missing from the page are skipped), and the
\* pointer-up that follows leaves the page Idle and pushes no memento.
C32_ResizeOfDeletedTarget ==
  (lastEvent \in {"pointermove", "pointerup"} /\ TargetGone(pointer.before)) =>
     /\ getCurrentBlocks(state) = getCurrentBlocks(pointer.before)
     /\ state.mementoManager = pointer.before.mementoManager
     /\ lastEvent = "pointerup" => Idle(getCurrentPage(state))

\* a pointer-move after the resized block was deleted
C32_Witness ==
  /\ lastEvent = "pointermove"
  /\ TargetGone(pointer.before)
  /\ getCurrentPage(pointer.before).resizing.id # SelectionBoundingBoxId

\* a pointer-up after the resized group was deleted, a third block remaining
C32_WitnessGroupUp ==
  /\ lastEvent = "pointerup"
  /\ TargetGone(pointer.before)
  /\ getCurrentPage(pointer.before).resizing.id = SelectionBoundingBoxId
  /\ Len(getCurrentBlocks(state)) = 1
  /\ getCurrentPage(pointer.before).mouseX # 0

----------------------------------------------------------------------------
(* Persistence and quitting: the renderer (app.js), the main process
   (index.js) and the IPC messages between them *)

MaxQuitEvents == 4

\* saveApplication: the state without mementoManager (notification,
\* notificationVisible and clipboard are not part of the modelled State);
\* JSON.stringify keeps every remaining value: finite numbers, strings,
\* booleans, null, arrays and plain objects
serializableSaveState(s) == [k \in DOMAIN s \ {"mementoManager"} |-> s[k]]

\* readFile(STATE_SAVE_PATH) followed by state.mementoManager =
\* createMementoManager()
stateOfFile(file) == file @@ [mementoManager |-> createMementoManager]

\* a file an interrupted fs.writeFile leaves behind
Truncated == [truncated |-> TRUE]

FileWrite(data) == [channel |-> "file:write", data |-> data]
StateSaved == [channel |-> "state-saved", data |-> Null]

Remove(seq, i) == SubSeq(seq, 1, i - 1) \o SubSeq(seq, i + 1, Len(seq))

\* a file:write that main has not finished: in the queue or being written
SaveInProgress(p) ==
  \/ p.writes # <<>>
  \/ \E i \in 1..Len(p.toMain) : p.toMain[i].channel = "file:write"

\* an event of the user in the renderer
QuitUserStep(next, event) ==
  /\ ~ ipc.exited
  /\ ipc.renderer = "running"
  /\ changes < MaxQuitEvents
  /\ state' = next
  /\ lastEvent' = event
  /\ changes' = changes + 1
  /\ commit' = CommitOf(state, next)
  /\ UNCHANGED <<uuid, pointer, ipc>>

\* a step of a process
QuitProcessStep(nextIpc, event) ==
  /\ ~ ipc.exited
  /\ ipc' = nextIpc
  /\ lastEvent' = event
  /\ UNCHANGED <<state, uuid, pointer, changes, commit>>

\* a step of a process that an event of the user starts
QuitProcessStepKeeping(nextIpc, event) ==
  /\ ~ ipc.exited
  /\ ipc' = nextIpc
  /\ lastEvent' = event
  /\ UNCHANGED <<state, uuid, pointer, commit>>

\* initialize() after its awaits: the listener of app-will-quit closes over
\* the local variable state, then app({init: state}) starts
QuitInitialize ==
  /\ ipc.renderer = "loading"
  /\ QuitProcessStep([ipc EXCEPT !.renderer = "running", !.captured = state],
                     "initialize")

QuitAddBlock ==
  QuitUserStep(addBlock(state, Null, DefaultBlockSize, DefaultBlockSize),
               "addBlock")

QuitDelete ==
  /\ hasSelection(state)
  /\ QuitUserStep(KeyDown(state, "Delete", FALSE, FALSE), "key.Delete")

QuitUndo ==
  /\ undoState(state) # state
  /\ QuitUserStep(KeyDown(state, "z", TRUE, FALSE), "key.undo")

\* Ctrl+S: KeyDown returns [state, saveApplicationAndNotify]
QuitSaveShortcut ==
  /\ ipc.renderer = "running"
  /\ changes < MaxQuitEvents
  /\ changes' = changes + 1
  /\ QuitProcessStepKeeping(
       [ipc EXCEPT !.toMain = Append(@, FileWrite(serializableSaveState(state)))],
       "key.save")

\* the user quits: before-quit prevents the quit and asks the renderer to save
QuitBeforeQuit ==
  /\ changes < MaxQuitEvents
  /\ changes' = changes + 1
  /\ QuitProcessStepKeeping(
       [ipc EXCEPT !.toRenderer = Append(@, "app-will-quit")], "before-quit")

\* the renderer receives app-will-quit: with the listener registered it calls
\* saveApplication(state) on the captured state, which sends file:write, and
\* then sends state-saved without awaiting; without a listener the message is
\* dropped
QuitOnAppWillQuit ==
  /\ ipc.toRenderer # <<>>
  /\ QuitProcessStep(
       IF ipc.renderer = "running"
       THEN [ipc EXCEPT
               !.toRenderer = Tail(@),
               !.toMain = @ \o <<FileWrite(serializableSaveState(ipc.captured)),
                                 StateSaved>>,
               !.quitState = state,
               !.quitData = serializableSaveState(ipc.captured)]
       ELSE [ipc EXCEPT !.toRenderer = Tail(@)],
       "app-will-quit")

\* ipcMain.handle("file:write"): writeFile runs up to its first await
QuitHandleFileWrite ==
  /\ ipc.toMain # <<>>
  /\ Head(ipc.toMain).channel = "file:write"
  /\ QuitProcessStep([ipc EXCEPT !.toMain = Tail(@),
                                 !.writes = Append(@, Head(ipc.toMain).data)],
                     "file:write")

\* fs.writeFile resolves: writes in progress finish in any order
QuitWriteDone ==
  \E i \in 1..Len(ipc.writes) :
    QuitProcessStep([ipc EXCEPT !.writes = Remove(@, i), !.file = ipc.writes[i]],
                    "writeFile.done")

\* ensureDirectory or fs.writeFile rejects: writeFile rethrows, the renderer's
\* saveApplication catches
QuitWriteFails ==
  \E i \in 1..Len(ipc.writes) :
    QuitProcessStep([ipc EXCEPT !.writes = Remove(@, i)], "writeFile.failed")

\* ipcMain.on("state-saved"): app.exit() ends the process at once; a write in
\* progress is lost, has finished or is cut short
QuitHandleStateSaved ==
  /\ ipc.toMain # <<>>
  /\ Head(ipc.toMain).channel = "state-saved"
  /\ \E file \in {ipc.file}
                   \cup {ipc.writes[i] : i \in 1..Len(ipc.writes)}
                   \cup (IF ipc.writes = <<>> THEN {} ELSE {Truncated}) :
       QuitProcessStep([ipc EXCEPT !.toMain = Tail(@), !.exited = TRUE,
                                   !.file = file],
                       "state-saved")

\* user/state.json is missing, or holds a state saved by an earlier session
InitQuit ==
  /\ uuid = 1
  /\ \E file \in {Null, serializableSaveState(loadedState(1, 1, <<1>>))} :
       /\ ipc = [NoIpc EXCEPT !.file = file]
       /\ state = IF file = Null THEN initialState(1) ELSE stateOfFile(file)
  /\ pointer = IdlePointer
  /\ lastEvent = "init"
  /\ changes = 0
  /\ commit = NoCommit

NextQuit ==
  \/ QuitInitialize
  \/ QuitAddBlock
  \/ QuitDelete
  \/ QuitUndo
  \/ QuitSaveShortcut
  \/ QuitBeforeQuit
  \/ QuitOnAppWillQuit
  \/ QuitHandleFileWrite
  \/ QuitWriteDone
  \/ QuitWriteFails
  \/ QuitHandleStateSaved

SpecQuit == InitQuit /\ [][NextQuit]_vars

\* C33: when the application quits, the state the renderer saves to
\* user/state.json is its state at quit time (without mementoManager): the
\* pages and blocks as the user last modified them.
C33_SavesStateAtQuit ==
  ipc.quitData # Null => ipc.quitData = serializableSaveState(ipc.quitState)

\* what the quit handler saves is the state initialize() started the app with
C33_SavesStateAtStartup ==
  ipc.quitData # Null =>
    /\ ipc.quitData = serializableSaveState(ipc.captured)
    /\ ipc.quitData \in {serializableSaveState(initialState(1)),
                         serializableSaveState(loadedState(1, 1, <<1>>))}

\* the processes take their steps: messages in flight are delivered, file
\* operations end, initialize() gets past its awaits
SpecQuitFair ==
  /\ SpecQuit
  /\ WF_vars(QuitInitialize)
  /\ WF_vars(QuitOnAppWillQuit)
  /\ WF_vars(QuitHandleFileWrite)
  /\ WF_vars(QuitWriteDone \/ QuitWriteFails)
  /\ WF_vars(QuitHandleStateSaved)

\* C34: on quit the main process exits only after the state is saved:
\* app.exit() never runs while a file write the renderer started is still in
\* progress, in every interleaving of the file:write handling and the
\* state-saved message.
C34_ExitsAfterSave == ipc.exited => ~ SaveInProgress(ipc)

\* once the quit handler of the renderer has run the application exits,
\* whether its write succeeds or fails
C34_ExitsEventually == (ipc.quitData # Null) ~> ipc.exited

\* every app-will-quit sent by before-quit is followed by the exit, also one
\* sent while initialize() has not yet registered the listener
C34_QuitRequestExits == (ipc.toRenderer # <<>>) ~> ipc.exited

----------------------------------------------------------------------------
(* The two stacks of the mementoManager together *)

HistorySize(s) == Len(undoStackOf(s)) + Len(redoStackOf(s))

\* C35: undoStack.length + redoStack.length <= 50 in every reachable state:
\* a commit empties redoStack and caps undoStack at 50, and undo and redo
\* each move exactly one memento between the two stacks, so redoState never
\* makes undoStack exceed 50 although it does not truncate.
C35_HistoryBound ==
  /\ [](HistorySize(state) <= maxHistorySize)
  /\ [][/\ lastEvent' = "renamePage" =>
             /\ redoStackOf(state') = <<>>
             /\ Len(undoStackOf(state')) <= maxHistorySize
        /\ (lastEvent' = "key.undo" /\ undoStackOf(state) # <<>>) =>
             /\ Len(undoStackOf(state')) = Len(undoStackOf(state)) - 1
             /\ Len(redoStackOf(state')) = Len(redoStackOf(state)) + 1
        /\ (lastEvent' = "key.redo" /\ redoStackOf(state) # <<>>) =>
             /\ Len(undoStackOf(state')) = Len(undoStackOf(state)) + 1
             /\ Len(redoStackOf(state')) = Len(redoStackOf(state)) - 1
             /\ Len(undoStackOf(state')) <= maxHistorySize]_vars

\* a redo that fills undoStack to 50 again
C35_Witness ==
  /\ lastEvent = "key.redo"
  /\ Len(undoStackOf(state)) = maxHistorySize
  /\ ~ commit.unchanged

----------------------------------------------------------------------------
(* Copy and paste of blocks *)

PASTE_OFFSET_X == 20
PASTE_OFFSET_Y == 20

\* Array.prototype.sort((a, b) => a.zIndex - b.zIndex), which is stable
RECURSIVE sortByZIndex(_)
sortByZIndex(blocks) ==
  IF blocks = <<>> THEN <<>>
  ELSE LET b == Head(blocks)
           rest == sortByZIndex(Tail(blocks))
       IN SelectSeq(rest, LAMBDA r : r.zIndex < b.zIndex) \o <<b>>
            \o SelectSeq(rest, LAMBDA r : r.zIndex >= b.zIndex)

\* block.js: the clipboard holds copies of the selected blocks with id -1
\* (the array is the field blocksData of a record, null stays Null)
copySelectedBlocks(s) ==
  LET selectedBlocks == getSelectedBlocks(s)
      copy(b) == [b EXCEPT !.id = -1]
  IN IF Len(selectedBlocks) = 0 THEN s
     ELSE [s EXCEPT !.clipboard =
                    [blocksData |-> Map(sortByZIndex(selectedBlocks), copy)]]

\* addBlocks: addBlock for every configuration in turn; the id of the last
\* block of the current page is collected after each one
RECURSIVE addBlocks(_, _, _)
addBlocks(s, blockConfigs, newBlockIds) ==
  IF blockConfigs = <<>> THEN [state |-> s, blockIds |-> newBlockIds]
  ELSE LET config == Head(blockConfigs)
           currentState == addBlock(s, [x |-> config.x, y |-> config.y],
                                    config.width, config.height)
           currentBlocks == getCurrentBlocks(currentState)
       IN addBlocks(currentState, Tail(blockConfigs),
                    IF Len(currentBlocks) > 0
                    THEN Append(newBlockIds, currentBlocks[Len(currentBlocks)].id)
                    ELSE newBlockIds)

pasteClipboardBlocks(s) ==
  IF s.clipboard = Null THEN s
  ELSE LET config(blockData) ==
             [x |-> blockData.x + PASTE_OFFSET_X, y |-> blockData.y + PASTE_OFFSET_Y,
              width |-> blockData.width, height |-> blockData.height]
           added == addBlocks(s, Map(s.clipboard.blocksData, config), <<>>)
       IN IF Len(added.blockIds) > 0
          THEN updateCurrentPage(added.state, [selectedIds |-> added.blockIds])
          ELSE added.state

\* viewport.js onkeydown, case "c" with Ctrl or Cmd
onkeydownCopy(s, hasTextSelection) ==
  IF ~ HasCurrentPage(s) THEN s
  ELSE IF getCurrentPage(s).isTextEditorFocused THEN s
  ELSE IF ~ hasTextSelection /\ hasSelection(s) /\ getCurrentPage(s).editingId = NoId
       THEN copySelectedBlocks(s)
       ELSE [s EXCEPT !.clipboard = Null]

\* Ctrl+C
KeyCopy ==
  \E hasTextSelection \in BOOLEAN :
    Step(onkeydownCopy(state, hasTextSelection), "key.copy", PointerAfterOther)

\* Ctrl+V outside edit mode starts pasteEffect, which dispatches
\* pasteClipboardBlocks when the system clipboard holds no image and no text
KeyPaste ==
  /\ HasCurrentPage(state)
  /\ ~ getCurrentPage(state).isTextEditorFocused
  /\ getCurrentPage(state).editingId = NoId
  /\ Step(pasteClipboardBlocks(state), "paste", PointerAfterOther)

\* app.js initialState: clipboard is null
InitPaste ==
  /\ uuid = 1
  /\ ipc = NoIpc
  /\ \E s \in {initialState(1), loadedState(1, 1, <<>>),
               loadedState(1, 2, <<>>), loadedState(1, 2, <<1, 2>>)} :
       state = s @@ [clipboard |-> Null]
  /\ pointer = IdlePointer
  /\ lastEvent = "init"
  /\ changes = 0
  /\ commit = NoCommit

NextPaste ==
  \/ Next
  \/ KeyCopy
  \/ KeyPaste

SpecPaste == InitPaste /\ [][NextPaste]_vars

----------------------------------------------------------------------------
(* Selections, ids and pages: what every reachable state satisfies *)

BlockIds(blocks) == {blocks[j].id : j \in 1..Len(blocks)}

\* C36: on every page, every id in selectedIds is the id of a block that is
\* on that page now; this holds after delete, paste, marquee selection with
\* and without Shift, addBlock, undo and redo.
C36_SelectionOnPage ==
  \A i \in 1..Len(state.pages) :
    \A k \in 1..Len(state.pages[i].selectedIds) :
      state.pages[i].selectedIds[k] \in BlockIds(state.pages[i].blocks)

\* a copy of a block pasted next to it and selected
C36_Witness ==
  /\ lastEvent = "paste"
  /\ Len(getCurrentBlocks(state)) = 2
  /\ getCurrentPage(state).selectedIds = <<getCurrentBlocks(state)[2].id>>

\* an undo that brings the blocks of a deleted selection back
C36_WitnessUndo ==
  /\ lastEvent = "key.undo"
  /\ Len(getCurrentBlocks(state)) = 2
  /\ Len(redoStackOf(state)) > 0
  /\ redoStackOf(state)[Len(redoStackOf(state))].pages[1].blocks = <<>>

\* a marquee released with Shift held that leaves two blocks selected
C36_WitnessShiftMarquee ==
  /\ lastEvent = "pointerup"
  /\ pointer.target = "viewport"
  /\ pointer.moves > 0
  /\ state.isShiftPressed
  /\ Len(getCurrentPage(state).selectedIds) = 2

\* C37: no two blocks, on the same page or on different pages, have the same
\* id, after any sequence of addBlock, paste, delete, page create/delete,
\* undo and redo.
C37_UniqueBlockIds ==
  LET blocks == getGlobalBlocks(state)
  IN \A i, j \in 1..Len(blocks) : blocks[i].id = blocks[j].id => i = j

\* a block pasted after the deletion of its original takes the id freed
C37_Witness ==
  /\ lastEvent = "paste"
  /\ Len(getGlobalBlocks(state)) = 1
  /\ getGlobalBlocks(state)[1].id = 1
  /\ Len(undoStackOf(state)) = 2

\* a block added on a second page while the first page holds one
C37_WitnessPages ==
  /\ lastEvent = "addBlock"
  /\ Len(state.pages) = 2
  /\ \A i \in 1..2 : Len(state.pages[i].blocks) = 1

----------------------------------------------------------------------------
(* Pages: create, switch and delete with the ids of existing and of missing
   pages, undo and redo *)

MaxPageEvents == 4

\* the page id the last call was given
NoPageCall == [pageId |-> NoId]

PageStep(next, event, pageId) ==
  /\ changes < MaxPageEvents
  /\ state' = next
  /\ lastEvent' = event
  /\ pointer' = [pageId |-> pageId]
  /\ changes' = changes + 1
  /\ commit' = CommitOf(state, next)
  /\ UNCHANGED ipc

PagesCreate ==
  /\ uuid' = uuid + 1
  /\ PageStep(createPage(state, uuid + 1, "new page"), "createPage", uuid + 1)

\* the ids handed out so far and one that was never handed out
PagesSwitch ==
  \E pageId \in 1..(uuid + 1) :
    /\ UNCHANGED uuid
    /\ PageStep(switchPage(state, pageId), "switchPage", pageId)

PagesDelete ==
  \E pageId \in 1..(uuid + 1) :
    /\ UNCHANGED uuid
    /\ PageStep(deletePage(state, pageId), "deletePage", pageId)

PagesUndo ==
  /\ UNCHANGED uuid
  /\ PageStep(KeyDown(state, "z", TRUE, FALSE), "key.undo", NoId)

PagesRedo ==
  /\ UNCHANGED uuid
  /\ PageStep(KeyDown(state, "y", TRUE, FALSE), "key.redo", NoId)

InitPages ==
  /\ uuid = 1
  /\ ipc = NoIpc
  /\ state \in {initialState(1), loadedState(1, 1, <<1>>)}
  /\ pointer = NoPageCall
  /\ lastEvent = "init"
  /\ changes = 0
  /\ commit = NoCommit

NextPages ==
  \/ PagesCreate
  \/ PagesSwitch
  \/ PagesDelete
  \/ PagesUndo
  \/ PagesRedo

SpecPages == InitPages /\ [][NextPages]_vars

CurrentPageExists(s) ==
  /\ Len(s.pages) > 0
  /\ \E i \in 1..Len(s.pages) : s.pages[i].id = s.currentPageId

PageIds(s) == {s.pages[i].id : i \in 1..Len(s.pages)}

\* C38: pages is non-empty and currentPageId is the id of a page in pages:
\* deletePage never removes the last page and moves currentPageId to the
\* first remaining page when the current page is deleted, switchPage ignores
\* unknown ids, and undo and redo replace pages and currentPageId together.
C38_CurrentPageExists ==
  /\ [] CurrentPageExists(state)
  /\ [][/\ lastEvent' = "deletePage" =>
             /\ Len(state'.pages) >= 1
             /\ Len(state.pages) = 1 => state' = state
             /\ (Len(state.pages) > 1 /\ pointer'.pageId = state.currentPageId) =>
                  /\ pointer'.pageId \notin PageIds(state')
                  /\ state'.currentPageId = state'.pages[1].id
             /\ pointer'.pageId # state.currentPageId =>
                  state'.currentPageId = state.currentPageId
        /\ lastEvent' = "switchPage" =>
             IF pointer'.pageId \in PageIds(state)
             THEN state' = [state EXCEPT !.currentPageId = pointer'.pageId]
             ELSE state' = state
        /\ (lastEvent' = "key.undo" /\ undoStackOf(state) # <<>>) =>
             LET memento == undoStackOf(state)[Len(undoStackOf(state))]
             IN /\ state'.currentPageId = memento.currentPageId
                /\ PageIds(state') = PageIds(memento)
        /\ (lastEvent' = "key.redo" /\ redoStackOf(state) # <<>>) =>
             LET memento == redoStackOf(state)[Len(redoStackOf(state))]
             IN /\ state'.currentPageId = memento.currentPageId
                /\ PageIds(state') = PageIds(memento)]_vars

\* the current page deleted: the first remaining page is current
C38_Witness ==
  /\ lastEvent = "deletePage"
  /\ Len(state.pages) = 1
  /\ pointer.pageId \notin PageIds(state)
  /\ state.currentPageId = 1
  /\ Len(undoStackOf(state)) = 2

\* the deletion of the current page undone: that page is current again
C38_WitnessUndo ==
  /\ lastEvent = "key.undo"
  /\ Len(state.pages) = 2
  /\ state.currentPageId = 2
  /\ Len(redoStackOf(state)) > 0
  /\ Len(redoStackOf(state)[1].pages) = 1

\* switchPage called with the id of no page
C38_WitnessUnknown ==
  /\ lastEvent = "switchPage"
  /\ pointer.pageId \notin PageIds(state)
  /\ Len(state.pages) = 2

----------------------------------------------------------------------------
(* Group resize: the pointer-moves of one gesture *)

\* the state of the last pointer-move with the blocks as they were at
\* pointer-down
atPointerDown(s) == updateCurrentPage(s, [blocks |-> pointer.start])

\* one pointer-move to the canvas point (x, y), taken from the snapshot
movedFromSnapshot(s, x, y) ==
  onpointermove(atPointerDown(s),
                PointerEvent(s, 0, x + getCurrentViewport(s).offsetX,
                             y + getCurrentViewport(s).offsetY))

AfterGroupMove ==
  /\ lastEvent = "pointermove"
  /\ pointer.group
  /\ getCurrentPage(state).resizing # Null

\* C39: during a group resize the geometry of the resized blocks after a
\* pointer-move depends only on the snapshot taken at pointer-down, the
\* handle, the shift state and the pointer position, not on the earlier
\* pointer-moves of the gesture: it is what a single pointer-move from the
\* snapshot to that position gives.
C39_GroupResizeFromSnapshot ==
  AfterGroupMove =>
    getCurrentBlocks(state)
      = getCurrentBlocks(movedFromSnapshot(pointer.before, pointer.x, pointer.y))

\* a second pointer-move, after a first one that resized the blocks
C39_Witness ==
  /\ AfterGroupMove
  /\ pointer.moves = 2
  /\ getCurrentBlocks(pointer.before) # pointer.start
  /\ getCurrentBlocks(state) # getCurrentBlocks(pointer.before)
  /\ getCurrentBlocks(state) # pointer.start

\* the same with Shift held: the aspect ratio of the snapshot is kept
C39_WitnessShift ==
  /\ C39_Witness
  /\ pointer.before.isShiftPressed

====
